---------------------------- MODULE Spec2Model ----------------------------
(***************************************************************************)
(* Meal planner (frankwiersma/recipes): the suggestion engine, the week    *)
(* plan handlers, the scoring functions and the shopping-list merge,       *)
(* translated from the TypeScript sources.                                 *)
(*                                                                         *)
(*   Spec         the suggestion requests and the week plan handlers on    *)
(*                today                                                    *)
(*   SpecHistory  the suggestion requests with the meal history, over days *)
(*   SpecToday    every writer of a suggestion's status, with accept       *)
(*   SpecPlan     the week plan handlers on every date of the window       *)
(*   SpecDelete   recipe deletes among the writers of referencing rows     *)
(*   SpecResolve  the week plan read over a catalog of three recipes       *)
(*   SpecReads    week plan reads one after another                        *)
(*   SpecOverlap  getTodaySuggestion calls that overlap                    *)
(*   SpecPast     the week plan handlers over days                         *)
(*   SpecShopping the shopping list among the week plan requests           *)
(*   SpecWeather  getCurrentWeather and its cache                          *)
(*   SpecRace     week plan requests on one date that overlap              *)
(*   SpecScore    scoreRecipe / getWeatherTags on enumerated inputs        *)
(*   SpecShop     normalizeIngredientName / categorizeIngredient /         *)
(*                mergeIngredients on enumerated ingredient lines          *)
(***************************************************************************)
EXTENDS Integers, Sequences, FiniteSets, TLC

VARIABLES
    recipes,      \* recipes table: the set of recipe ids
    recipeSeq,    \* recipes AUTOINCREMENT counter
    suggestions,  \* suggestions table: sequence of rows, row id = index
    mealHistory,  \* meal_history table: set of rows
    histSeq,      \* meal_history AUTOINCREMENT counter
    weekPlan,     \* week_plan table: date -> row (unique date)
    today,        \* the local calendar day (day number)
    now,          \* the wall clock in seconds, kept as a rank over createdAt
    last,         \* the last request and its response
    scoreRun,     \* SpecScore: inputs and result of one scoreRecipe call
    shopRun,      \* SpecShop: inputs and result of one mergeIngredients call
    weatherCache, \* weather.ts: the cache entry of getCurrentWeather, or null
    weatherRun,   \* SpecWeather: the clock and the calls of getCurrentWeather
    raceRun,      \* SpecRace: requests in flight on one date of the week plan
    readLog,      \* SpecReads: the week plan response before the last one
    todayRun      \* SpecOverlap: getTodaySuggestion calls in flight

vars == <<recipes, recipeSeq, suggestions, mealHistory, histSeq, weekPlan, today, now,
          last, scoreRun, shopRun, weatherCache, weatherRun, raceRun, readLog,
          todayRun>>

dbVars == <<recipes, recipeSeq, suggestions, mealHistory, histSeq, weekPlan, today, now, last,
            readLog, todayRun>>

\* SQL NULL / JavaScript null, and a present value.
Null == <<>>
Some(v) == <<v>>
Val(o) == o[1]

Min(a, b) == IF a < b THEN a ELSE b

(***************************************************************************)
(* JavaScript string functions, computed on TLA+ strings.                  *)
(***************************************************************************)
UpperChars == "ABCDEFGHIJKLMNOPQRSTUVWXYZ"
LowerChars == "abcdefghijklmnopqrstuvwxyz"

CharAt(s, i) == SubSeq(s, i, i)

\* String.prototype.toLowerCase on one character.
LowerChar(c) ==
    IF \E i \in 1..Len(UpperChars) : CharAt(UpperChars, i) = c
    THEN CharAt(LowerChars, CHOOSE i \in 1..Len(UpperChars) : CharAt(UpperChars, i) = c)
    ELSE c

RECURSIVE ToLowerCase(_)
ToLowerCase(s) ==
    IF Len(s) = 0 THEN ""
    ELSE LowerChar(CharAt(s, 1)) \o ToLowerCase(SubSeq(s, 2, Len(s)))

\* The regular expression class \s, on the characters the inputs use.
IsSpace(c) == c = " " \/ c = "\t"

RECURSIVE TrimStart(_)
TrimStart(s) ==
    IF Len(s) > 0 /\ IsSpace(CharAt(s, 1)) THEN TrimStart(SubSeq(s, 2, Len(s))) ELSE s

RECURSIVE TrimEnd(_)
TrimEnd(s) ==
    IF Len(s) > 0 /\ IsSpace(CharAt(s, Len(s))) THEN TrimEnd(SubSeq(s, 1, Len(s) - 1)) ELSE s

\* String.prototype.trim
Trim(s) == TrimEnd(TrimStart(s))

\* s.replace(/\s+/g, ' ')
RECURSIVE CollapseWhitespace(_)
CollapseWhitespace(s) ==
    IF Len(s) = 0 THEN ""
    ELSE IF IsSpace(CharAt(s, 1))
         THEN " " \o CollapseWhitespace(TrimStart(s))
         ELSE CharAt(s, 1) \o CollapseWhitespace(SubSeq(s, 2, Len(s)))

\* String.prototype.includes
Includes(s, k) ==
    \E i \in 1..(Len(s) - Len(k) + 1) : SubSeq(s, i, i + Len(k) - 1) = k

StartsWith(s, w) == Len(s) >= Len(w) /\ SubSeq(s, 1, Len(w)) = w
EndsWith(s, w) == Len(s) >= Len(w) /\ SubSeq(s, Len(s) - Len(w) + 1, Len(s)) = w

(***************************************************************************)
(* Shopping list: src/src/api/shopping.ts                                  *)
(***************************************************************************)

\* The alternatives of /^(verse?|biologische?|grote?|kleine?|rode?|groene?|gele?|witte?)\s+/i
\* in the order the regular expression tries them (e? is greedy).
LeadingDescriptors ==
    << "verse", "vers", "biologische", "biologisch", "grote", "grot",
       "kleine", "klein", "rode", "rod", "groene", "groen", "gele", "gel",
       "witte", "witt" >>

\* The alternatives of /\s+(vers|biologisch|groot|klein|rood|groen|geel|wit)$/i
TrailingDescriptors ==
    << "vers", "biologisch", "groot", "klein", "rood", "groen", "geel", "wit" >>

\* .replace(/^(...)\s+/i, ''): the first alternative followed by whitespace is
\* removed together with the whitespace run after it.
StripLeadingOf(descriptors, s) ==
    LET lower == ToLowerCase(s)
        hit(i) == /\ StartsWith(lower, descriptors[i])
                  /\ Len(s) > Len(descriptors[i])
                  /\ IsSpace(CharAt(s, Len(descriptors[i]) + 1))
    IN  IF \E i \in 1..Len(descriptors) : hit(i)
        THEN LET i == CHOOSE j \in 1..Len(descriptors) :
                          hit(j) /\ \A k \in 1..(j - 1) : ~hit(k)
             IN  TrimStart(SubSeq(s, Len(descriptors[i]) + 1, Len(s)))
        ELSE s

StripLeading(s) == StripLeadingOf(LeadingDescriptors, s)

\* .replace(/\s+(...)$/i, ''): a descriptor at the end, with the whole
\* whitespace run before it (the leftmost match), is removed.
StripTrailing(s) ==
    LET lower == ToLowerCase(s)
        hit(i) == /\ EndsWith(lower, TrailingDescriptors[i])
                  /\ Len(s) > Len(TrailingDescriptors[i])
                  /\ IsSpace(CharAt(s, Len(s) - Len(TrailingDescriptors[i])))
    IN  IF \E i \in 1..Len(TrailingDescriptors) : hit(i)
        THEN LET i == CHOOSE j \in 1..Len(TrailingDescriptors) :
                          hit(j) /\ \A k \in 1..(j - 1) : ~hit(k)
             IN  TrimEnd(SubSeq(s, 1, Len(s) - Len(TrailingDescriptors[i])))
        ELSE s

normalizeIngredientName(name) ==
    StripTrailing(StripLeading(CollapseWhitespace(Trim(ToLowerCase(name)))))

\* ingredientCategories: the category names in insertion order and the
\* keyword list of each. '#' stands for the two non-ASCII letters of the
\* fourth dairy keyword, which no ASCII name contains.
CategoryNames ==
    << "Groente & Fruit", "Zuivel & Eieren", "Vlees & Vis", "Pasta, Rijst & Granen",
       "Conserven & Sauzen", "Kruiden & Specerijen", "Noten & Zaden", "Olie & Azijn",
       "Overig" >>

ingredientCategories ==
    << << "ui", "uien", "knoflook", "tomaat", "tomaten", "paprika", "wortel", "wortels",
          "spinazie", "sla", "komkommer", "courgette", "aubergine", "broccoli", "bloemkool",
          "champignon", "champignons", "prei", "bosui", "lente-ui", "gember", "citroen",
          "limoen", "avocado", "pompoen", "zoete aardappel", "aardappel", "aardappelen",
          "paksoi", "sperziebonen", "mais", "erwten", "kikkererwten", "bonen", "linzen",
          "appel", "banaan", "mango", "ananas", "granaatappel", "basilicum", "koriander",
          "peterselie", "munt", "bieslook", "dille", "rode ui", "sjalot", "bleekselderij" >>,
       << "melk", "room", "slagroom", "cr#me fra#che", "yoghurt", "kwark", "kaas",
          "mozzarella", "parmezaan", "geitenkaas", "feta", "ricotta", "mascarpone",
          "boter", "ei", "eieren", "halloumi", "cottage cheese" >>,
       << "kip", "kipfilet", "kippenbouten", "gehakt", "rundergehakt", "varkensvlees",
          "spek", "bacon", "worst", "chorizo", "zalm", "garnalen", "tonijn", "kabeljauw",
          "makreel", "mosselen", "vis", "kalkoen", "eend", "lam" >>,
       << "pasta", "spaghetti", "penne", "tagliatelle", "orzo", "gnocchi", "noedels",
          "rijst", "basmatirijst", "risottorijst", "couscous", "bulgur", "quinoa",
          "brood", "tortilla", "wraps", "naanbrood", "pitabrood", "bladerdeeg" >>,
       << "tomatenpuree", "passata", "gepelde tomaten", "tomatenblokjes", "kokosmelk",
          "sojasaus", "oestersaus", "vissaus", "sriracha", "sambal", "ketjap",
          "mayonaise", "mosterd", "ketchup", "pesto", "olijven", "kappertjes",
          "zongedroogde tomaten", "bonen", "kidneybonen", "witte bonen", "linzen" >>,
       << "zout", "peper", "paprikapoeder", "komijn", "kurkuma", "koriander", "kaneel",
          "nootmuskaat", "cayennepeper", "chilipoeder", "oregano", "tijm", "rozemarijn",
          "laurier", "currypoeder", "garam masala", "ras el hanout", "za'atar",
          "chilivlokken", "kruidnagel", "kardemom", "foelie", "venkelzaad" >>,
       << "cashewnoten", "pinda's", "amandelen", "walnoten", "pijnboompitten",
          "sesamzaad", "zonnebloempitten", "pompoenpitten", "lijnzaad", "chiazaad" >>,
       << "olijfolie", "zonnebloemolie", "sesamolie", "kokosolie", "azijn", "balsamico",
          "wijnazijn", "rijstazijn", "appelazijn" >>,
       << >> >>

\* The for-loops of categorizeIngredient from category c on: the first
\* category (skipping 'Overig') one of whose keywords lowerName includes.
RECURSIVE CategoryFrom(_, _)
CategoryFrom(lowerName, c) ==
    IF c > Len(CategoryNames) THEN "Overig"
    ELSE IF CategoryNames[c] # "Overig"
            /\ \E k \in 1..Len(ingredientCategories[c]) :
                   Includes(lowerName, ingredientCategories[c][k])
         THEN CategoryNames[c]
         ELSE CategoryFrom(lowerName, c + 1)

MutCategorizeIngredient(name) == CategoryFrom(name, 1)
categorizeIngredient(name) == CategoryFrom(ToLowerCase(name), 1)


\* unit || '' followed by toLowerCase: the key of unitGroups.
UnitKey(unit) == ToLowerCase(IF unit = Null THEN "" ELSE Val(unit))

\* The total unitGroups holds for `key` after the loop over the first n amounts.
RECURSIVE UnitTotal(_, _, _)
UnitTotal(amounts, key, n) ==
    IF n = 0 THEN 0
    ELSE UnitTotal(amounts, key, n - 1)
         + (IF amounts[n].amount # Null /\ UnitKey(amounts[n].unit) = key
            THEN Val(amounts[n].amount) ELSE 0)

\* A plausible slip: the amounts are summed whatever their units.
MutCombineAmounts(amounts) ==
    LET hasNull == \E i \in 1..Len(amounts) : amounts[i].amount = Null
        key == UnitKey(amounts[1].unit)
        RECURSIVE All(_)
        All(n) == IF n = 0 THEN 0 ELSE All(n - 1) + Val(amounts[n].amount)
    IN  IF ~hasNull
        THEN [amount |-> Some(All(Len(amounts))),
              unit |-> IF key = "" THEN Null ELSE Some(key)]
        ELSE [amount |-> amounts[1].amount, unit |-> amounts[1].unit]

\* "Combine amounts where possible": the body of the .map() of mergeIngredients.
CombineAmounts(amounts) ==
    LET hasNull == \E i \in 1..Len(amounts) : amounts[i].amount = Null
        unitGroups == { UnitKey(amounts[i].unit) :
                          i \in { j \in 1..Len(amounts) : amounts[j].amount # Null } }
    IN  IF Cardinality(unitGroups) = 1 /\ ~hasNull
        THEN LET key == CHOOSE k \in unitGroups : TRUE
             IN  [amount |-> Some(UnitTotal(amounts, key, Len(amounts))),
                  unit |-> IF key = "" THEN Null ELSE Some(key)]
        ELSE [amount |-> amounts[1].amount, unit |-> amounts[1].unit]

\* The first loop of mergeIngredients: the Map `merged`, as the sequence of
\* its values in insertion order.
RECURSIVE MergeInto(_, _)
MergeInto(merged, ingredients) ==
    IF ingredients = << >> THEN merged
    ELSE LET ing == Head(ingredients)
             key == normalizeIngredientName(ing.name)
             src == [recipeId |-> ing.recipeId, amount |-> ing.amount, unit |-> ing.unit]
             au  == [amount |-> ing.amount, unit |-> ing.unit]
         IN  IF \E g \in 1..Len(merged) : merged[g].name = key
             THEN LET g == CHOOSE h \in 1..Len(merged) : merged[h].name = key
                  IN  MergeInto([merged EXCEPT ![g].amounts = Append(@, au),
                                               ![g].sources = Append(@, src)],
                                Tail(ingredients))
             ELSE MergeInto(Append(merged,
                                   [name |-> key,
                                    displayName |-> ing.name,
                                    amounts |-> << au >>,
                                    category |-> categorizeIngredient(ing.name),
                                    sources |-> << src >>]),
                            Tail(ingredients))

mergeIngredients(ingredients) ==
    LET merged == MergeInto(<< >>, ingredients)
    IN  [g \in 1..Len(merged) |->
            [name |-> merged[g].name,
             displayName |-> merged[g].displayName,
             amount |-> CombineAmounts(merged[g].amounts).amount,
             unit |-> CombineAmounts(merged[g].amounts).unit,
             category |-> merged[g].category,
             sources |-> merged[g].sources]]

(***************************************************************************)
(* SpecShop: mergeIngredients on enumerated ingredient lines.              *)
(***************************************************************************)
MaxLines == 2

\* Ingredient names: the documented examples, and names that exercise case,
\* whitespace, the descriptors and the category order.
ShopNames ==
    { "ui", "rode ui", " Rode\tUI ", "groot ui", "ui groot", "kipfilet",
      "zout naar smaak", "xyz-ingredient", "bloem", "Kokosmelk" }

\* The names that lines of one request share.
MergeNames == { "ui", "rode ui", "groot ui" }

\* amount and unit of a line.
ShopAmounts ==
    { [amount |-> Null, unit |-> Null],
      [amount |-> Some(1), unit |-> Null],
      [amount |-> Some(2), unit |-> Some("")],
      [amount |-> Some(200), unit |-> Some("g")],
      [amount |-> Some(100), unit |-> Some("G")],
      [amount |-> Some(1), unit |-> Some("kop")] }

\* The lines of a request, line i from recipe i: one line of any name, or
\* up to MaxLines lines of the names that can meet.
ShopLines(n, names) ==
    { [i \in 1..n |-> [name |-> nm[i], amount |-> au[i].amount,
                       unit |-> au[i].unit, recipeId |-> i]] :
        nm \in [1..n -> names], au \in [1..n -> ShopAmounts] }

ShopInputs ==
    ShopLines(1, ShopNames) \cup UNION { ShopLines(n, MergeNames) : n \in 2..MaxLines }

ShopIdle == [phase |-> "idle", lines |-> << >>, items |-> << >>]

ShopInit == shopRun \in { [phase |-> "input", lines |-> l, items |-> << >>] : l \in ShopInputs }

ShopMerge ==
    /\ shopRun.phase = "input"
    /\ shopRun' = [shopRun EXCEPT !.phase = "done",
                                  !.items = mergeIngredients(shopRun.lines)]


(***************************************************************************)
(* Weather tags, season and scoring: src/src/services/weather.ts,          *)
(* src/src/services/suggestion.ts                                          *)
(***************************************************************************)
Seasons == { "lente", "zomer", "herfst", "winter" }
WeatherTags == { "koud", "warm", "regenachtig", "zonnig" }

\* The elements of an array.
Elems(seq) == { seq[i] : i \in 1..Len(seq) }

\* A plausible slip: the comparison of the cold threshold made inclusive.
MutGetWeatherTags(weather) ==
    LET condition == ToLowerCase(weather.condition)
    IN  (IF weather.temp <= 10 THEN << "koud" >> ELSE << >>)
        \o (IF weather.temp > 20 THEN << "warm" >> ELSE << >>)
        \o (IF Includes(condition, "rain") \/ Includes(condition, "drizzle")
               \/ Includes(condition, "thunder")
            THEN << "regenachtig" >> ELSE << >>)
        \o (IF Includes(condition, "clear") \/ Includes(condition, "sun")
               \/ condition = "clouds"
            THEN << "zonnig" >> ELSE << >>)

\* getWeatherTags: the tags in the order they are pushed.
getWeatherTags(weather) ==
    LET condition == ToLowerCase(weather.condition)
    IN  (IF weather.temp < 10 THEN << "koud" >> ELSE << >>)
        \o (IF weather.temp > 20 THEN << "warm" >> ELSE << >>)
        \o (IF Includes(condition, "rain") \/ Includes(condition, "drizzle")
               \/ Includes(condition, "thunder")
            THEN << "regenachtig" >> ELSE << >>)
        \o (IF Includes(condition, "clear") \/ Includes(condition, "sun")
               \/ condition = "clouds"
            THEN << "zonnig" >> ELSE << >>)

\* getCurrentSeason, of the month 1..12 of the clock.
getCurrentSeason(month) ==
    IF month >= 3 /\ month <= 5 THEN "lente"
    ELSE IF month >= 6 /\ month <= 8 THEN "zomer"
    ELSE IF month >= 9 /\ month <= 11 THEN "herfst"
    ELSE "winter"

\* recipeWeatherTags.filter(t => weatherTags.includes(t)).length
MatchingTags(recipeWeatherTags, weatherTags) ==
    Cardinality({ i \in 1..Len(recipeWeatherTags) : recipeWeatherTags[i] \in Elems(weatherTags) })

\* A plausible slip: the recency thresholds compared with > instead of >=.
MutScoreRecipe(recipeSeasons, recipeWeatherTags, daysSinceEaten, currentSeason, weatherTags) ==
    LET seasonScore == IF Len(recipeSeasons) > 0
                       THEN (IF currentSeason \in Elems(recipeSeasons) THEN 30 ELSE 5)
                       ELSE 15
        weatherScore == IF Len(recipeWeatherTags) > 0
                        THEN Min(30, MatchingTags(recipeWeatherTags, weatherTags) * 15)
                        ELSE 10
        recencyScore == IF daysSinceEaten > 14 THEN 40
                        ELSE IF daysSinceEaten > 7 THEN 30
                        ELSE IF daysSinceEaten > 3 THEN 15
                        ELSE 0
    IN  [seasonScore |-> seasonScore, weatherScore |-> weatherScore,
         recencyScore |-> recencyScore,
         totalScore |-> seasonScore + weatherScore + recencyScore]

\* scoreRecipe, with the recipe's parsed JSON fields and the result of
\* getDaysSinceEaten as arguments.
scoreRecipe(recipeSeasons, recipeWeatherTags, daysSinceEaten, currentSeason, weatherTags) ==
    LET seasonScore == IF Len(recipeSeasons) > 0
                       THEN (IF currentSeason \in Elems(recipeSeasons) THEN 30 ELSE 5)
                       ELSE 15
        weatherScore == IF Len(recipeWeatherTags) > 0
                        THEN Min(30, MatchingTags(recipeWeatherTags, weatherTags) * 15)
                        ELSE 10
        recencyScore == IF daysSinceEaten >= 14 THEN 40
                        ELSE IF daysSinceEaten >= 7 THEN 30
                        ELSE IF daysSinceEaten >= 3 THEN 15
                        ELSE 0
    IN  [seasonScore |-> seasonScore, weatherScore |-> weatherScore,
         recencyScore |-> recencyScore,
         totalScore |-> seasonScore + weatherScore + recencyScore]

(***************************************************************************)
(* SpecScore: getWeatherTags and scoreRecipe on enumerated inputs.         *)
(***************************************************************************)
MaxTags == 2
NeverEaten == 999

\* The arrays of weather tags a recipe can carry (POST /api/recipes stores
\* body.weatherTags as given, so an array may repeat a tag).
TagLists == UNION { [1..n -> WeatherTags] : n \in 0..MaxTags }

SeasonLists == { << >>, << "lente", "zomer" >>, << "herfst", "winter" >> }

ScoreTemps == { 5, 10, 20, 21 }
ScoreConditions == { "Rain", "Drizzle", "Thunderstorm", "Clear", "Clouds", "Snow" }
ScoreMonths == { 2, 3, 8, 11 }
ScoreDays == { 0, 2, 3, 6, 7, 13, 14, NeverEaten }

ScoreIdle == [phase |-> "idle"]

ScoreInit ==
    scoreRun \in { [phase |-> "input", seasons |-> se, tags |-> tg, month |-> mo,
                    temp |-> te, condition |-> co, days |-> da,
                    weatherTags |-> << >>, score |-> Null] :
                   se \in SeasonLists, tg \in TagLists, mo \in ScoreMonths,
                   te \in ScoreTemps, co \in ScoreConditions, da \in ScoreDays }

\* generateSuggestion lines 76-78 and 95 for one recipe.
ScoreOne ==
    /\ scoreRun.phase = "input"
    /\ LET weather == [temp |-> scoreRun.temp, condition |-> scoreRun.condition]
           weatherTags == getWeatherTags(weather)
       IN  scoreRun' = [scoreRun EXCEPT
                          !.phase = "done",
                          !.weatherTags = weatherTags,
                          !.score = Some(scoreRecipe(scoreRun.seasons, scoreRun.tags,
                                                     scoreRun.days,
                                                     getCurrentSeason(scoreRun.month),
                                                     weatherTags))]


(***************************************************************************)
(* The database and the request handlers.                                  *)
(*                                                                         *)
(* A suggestions row is [recipeId, suggestedFor, status, createdAt]; its   *)
(* id is its index (AUTOINCREMENT).                                        *)
(* A meal_history row is [id, recipeId, eatenAt, by]: eatenAt is the day   *)
(* of the timestamp; `by` is a ghost field, the id of the suggestion whose *)
(* acceptSuggestion inserted the row, 0 for POST /api/history.             *)
(* A week_plan row is [recipeId, cleared], recipeId Null or Some(id).      *)
(***************************************************************************)
MaxRecipes == 2      \* recipes ever created
ForecastDays == 2    \* days after today the forecast provider covers
MaxSuggestions == 3  \* suggestions rows ever inserted
MaxHistory == 2      \* meal_history rows ever inserted
MaxToday == 1        \* day rollovers

\* slice(0, 7) of GET /api/weekplan and GET /api/shopping
WeekLength == 7
\* topCandidates = scores.slice(0, Math.min(3, scores.length))
TopCandidates == 3

RecipeIds == 1..MaxRecipes
PlanDates == 0..(MaxToday + ForecastDays)

\* seasons and weatherTags of the recipe with a given id: the category
\* defaults POST /api/recipes/import/url assigns (untagged, curry, salade,
\* pasta), repeated in that order.
RecipeSeasons(r) ==
    CASE r % 4 = 1 -> << >>
      [] r % 4 = 2 -> << "herfst", "winter" >>
      [] r % 4 = 3 -> << "lente", "zomer" >>
      [] OTHER     -> << "lente", "zomer", "herfst", "winter" >>

RecipeWeatherTags(r) ==
    CASE r % 4 = 1 -> << >>
      [] r % 4 = 2 -> << "koud", "regenachtig" >>
      [] r % 4 = 3 -> << "warm", "zonnig" >>
      [] OTHER     -> << >>

\* What a handler reads from outside the database: whether the weather
\* provider (behind its cache) answers, the snapshot, and the month.
Snapshots == { [temp |-> 5, condition |-> "Rain"], [temp |-> 25, condition |-> "Clear"] }

Environments ==
    { [weatherOk |-> FALSE, month |-> 1, weather |-> [temp |-> 5, condition |-> "Rain"]],
      [weatherOk |-> TRUE, month |-> 1, weather |-> [temp |-> 5, condition |-> "Rain"]],
      [weatherOk |-> TRUE, month |-> 7, weather |-> [temp |-> 25, condition |-> "Clear"]] }

\* getWeatherTags(weather) of each snapshot, evaluated once.
SnapshotTags == [w \in Snapshots |-> getWeatherTags(w)]

\* ---- the weather cache: src/src/services/weather.ts ----

MaxWeatherDays == 1    \* midnights that pass
MaxWeatherCalls == 3   \* calls of getCurrentWeather ever started

\* weatherCache = null and no call made. The clock is kept as the two facts
\* getCurrentWeather reads from it: `day`, the local calendar day of
\* getTodayString(), and `expired`, whether CACHE_DURATION (30 minutes) has
\* passed since weatherCache.timestamp. A cache entry is [data, timestamp,
\* date], its timestamp kept as the local calendar day of the write.
\* `pending` holds the calls that await the provider and `out` the outcome
\* of the last call that returned.
WeatherInit ==
    /\ weatherCache = Null
    /\ weatherRun = [day |-> 0, expired |-> FALSE, calls |-> 0, pending |-> {},
                     out |-> [id |-> 0, kind |-> "none"]]

\* A plausible slip: the cache is checked for its age only.
MutCacheValid(todayStr) ==
    /\ weatherCache # Null
    /\ ~weatherRun.expired

\* weatherCache && weatherCache.date === todayStr
\*   && Date.now() - weatherCache.timestamp < CACHE_DURATION
CacheValid(todayStr) ==
    /\ weatherCache # Null
    /\ Val(weatherCache).date = todayStr
    /\ ~weatherRun.expired

\* getCurrentWeather up to its await of fetch(url): todayStr is read, and
\* the cached snapshot is returned or the provider is called.
WeatherStart ==
    LET id == weatherRun.calls + 1
        todayStr == weatherRun.day
    IN  /\ weatherRun.calls < MaxWeatherCalls
        /\ IF CacheValid(todayStr)
           THEN weatherRun' = [weatherRun EXCEPT
                                 !.calls = id,
                                 !.out = [id |-> id, kind |-> "cached",
                                          data |-> Val(weatherCache).data]]
           ELSE weatherRun' = [weatherRun EXCEPT
                                 !.calls = id,
                                 !.pending = @ \cup { [id |-> id, todayStr |-> todayStr] }]
        /\ UNCHANGED weatherCache

\* getCurrentWeather after the await: the provider has answered. A failed
\* fetch or a response that is not ok throws; otherwise the snapshot is
\* stored with Date.now() and the todayStr read before the await.
WeatherAnswer(call, ok, data) ==
    /\ call \in weatherRun.pending
    /\ IF ok
       THEN /\ weatherCache' = Some([data |-> data, timestamp |-> weatherRun.day,
                                     date |-> call.todayStr])
            /\ weatherRun' = [weatherRun EXCEPT
                                 !.pending = @ \ { call },
                                 !.expired = FALSE,
                                 !.out = [id |-> call.id, kind |-> "fetched",
                                          data |-> data]]
       ELSE /\ weatherCache' = weatherCache
            /\ weatherRun' = [weatherRun EXCEPT
                                 !.pending = @ \ { call },
                                 !.out = [id |-> call.id, kind |-> "error"]]

\* Thirty minutes have passed since the cache entry was written.
WeatherExpire ==
    /\ weatherCache # Null
    /\ ~weatherRun.expired
    /\ weatherRun' = [weatherRun EXCEPT !.expired = TRUE]
    /\ UNCHANGED weatherCache

\* Local midnight passes; an entry written before the previous midnight
\* is older than thirty minutes.
WeatherMidnight ==
    /\ weatherRun.day < MaxWeatherDays
    /\ (weatherCache # Null /\ ~weatherRun.expired)
          => Val(weatherCache).timestamp = weatherRun.day
    /\ weatherRun' = [weatherRun EXCEPT !.day = @ + 1]
    /\ UNCHANGED weatherCache

\* ---- week plan requests in flight on one date ----

MaxRaceProcs == 2      \* requests in flight at a time
MaxRaceRequests == 3   \* requests ever started under SpecRace

RaceProcs == 1..MaxRaceProcs

\* The date the requests address, a date after today.
RaceDate == 1

\* No request in flight and no week_plan row. `rows` is the week_plan table
\* as the sequence of its rows [date, recipeId, cleared], `started` counts
\* the requests, and a request between two awaits is [op, recipe, found,
\* pc, status]: what it will write, what its findFirst returned and, once it
\* has answered, its HTTP status.
RaceIdle == [op |-> "none", recipe |-> Null, found |-> FALSE, pc |-> "idle", status |-> 0]

RaceInit ==
    raceRun = [rows |-> << >>, started |-> 0, procs |-> [p \in RaceProcs |-> RaceIdle]]

\* findFirst({ where: eq(weekPlan.date, date) }) finds a row.
RaceFound(date) == \E i \in 1..Len(raceRun.rows) : raceRun.rows[i].date = date

\* INSERT INTO week_plan: date is declared UNIQUE, so the insert of a second
\* row of a date fails with a constraint error.
RaceInsert(row) ==
    IF RaceFound(row.date) THEN [ok |-> FALSE, rows |-> raceRun.rows]
    ELSE [ok |-> TRUE, rows |-> Append(raceRun.rows, row)]

\* db.update(weekPlan).set(...).where(eq(weekPlan.date, date)); `cleared`
\* is Null when the set leaves the column alone.
RaceUpdate(date, recipeId, cleared) ==
    [i \in 1..Len(raceRun.rows) |->
        IF raceRun.rows[i].date = date
        THEN [raceRun.rows[i] EXCEPT !.recipeId = recipeId,
                                     !.cleared = IF cleared = Null THEN @ ELSE Val(cleared)]
        ELSE raceRun.rows[i]]

\* A request up to the await after its findFirst on week_plan: PUT with an
\* existing recipe, DELETE, POST regenerate with its pick, or the step of
\* GET /api/weekplan for the date with its pick. The read of a stored day
\* writes nothing and answers.
RaceFind(p, op, recipe) ==
    /\ raceRun.procs[p].pc = "idle"
    /\ raceRun.started < MaxRaceRequests
    /\ raceRun' = [raceRun EXCEPT
          !.started = @ + 1,
          !.procs[p] = IF op = "weekplan" /\ RaceFound(RaceDate)
                       THEN [op |-> op, recipe |-> recipe, found |-> TRUE,
                             pc |-> "idle", status |-> 200]
                       ELSE [op |-> op, recipe |-> recipe, found |-> RaceFound(RaceDate),
                             pc |-> "write", status |-> 0]]

\* The request after that await: the update of the row it found, or the
\* insert of a row. Only the insert of GET /api/weekplan carries
\* onConflictDoNothing(); an insert that fails is caught and answered 500.
RaceWrite(p) ==
    LET proc == raceRun.procs[p]
        cleared == proc.op = "clearDay"
        row == [date |-> RaceDate, recipeId |-> proc.recipe, cleared |-> cleared]
        ins == RaceInsert(row)
        done(status) == [proc EXCEPT !.pc = "idle", !.status = status]
    IN  /\ proc.pc = "write"
        /\ IF proc.found
           THEN raceRun' = [raceRun EXCEPT
                   !.rows = RaceUpdate(RaceDate, proc.recipe,
                                       IF proc.op = "regenerate" THEN Null
                                       ELSE Some(cleared)),
                   !.procs[p] = done(200)]
           ELSE raceRun' = [raceRun EXCEPT
                   !.rows = ins.rows,
                   !.procs[p] = done(IF ins.ok \/ proc.op = "weekplan" THEN 200 ELSE 500)]

\* ---- queries ----

\* The place of a suggestions row that a cascading recipe delete removed:
\* ids are not reused, and the row matches no date, no status and no recipe.
DeletedRow == [recipeId |-> 0, suggestedFor |-> -1, status |-> "deleted", createdAt |-> 0]

SuggestionIds == { i \in 1..Len(suggestions) : suggestions[i] # DeletedRow }

\* where(eq(suggestions.suggestedFor, date))
SuggestionsFor(date) == { i \in SuggestionIds : suggestions[i].suggestedFor = date }

\* .orderBy(desc(suggestions.createdAt)).limit(1): the rows the query can
\* return. createdAt holds seconds, so rows inserted within one second tie
\* and SQL leaves the choice among them open (SQLite 3.40 returns the one
\* with the lowest id).
LatestSuggestions(date) ==
    { i \in SuggestionsFor(date) :
        \A j \in SuggestionsFor(date) : suggestions[j].createdAt <= suggestions[i].createdAt }

\* The results of the query: Null for no row, Some(id) otherwise.
LatestSuggestionResults(date) ==
    IF SuggestionsFor(date) = {} THEN { Null }
    ELSE { Some(i) : i \in LatestSuggestions(date) }

\* todaysSuggestions.map(s => s.recipeId)
SuggestedRecipeIds(date) == { suggestions[i].recipeId : i \in SuggestionsFor(date) }

\* getDaysSinceEaten: differenceInDays(new Date(), lastEaten.eatenAt), in days.
getDaysSinceEaten(recipeId) ==
    LET rows == { h \in mealHistory : h.recipeId = recipeId }
    IN  IF rows = {} THEN NeverEaten
        ELSE today - (CHOOSE d \in { h.eatenAt : h \in rows } :
                         \A h \in rows : h.eatenAt <= d)

TotalScore(r, env) ==
    scoreRecipe(RecipeSeasons(r), RecipeWeatherTags(r), getDaysSinceEaten(r),
                getCurrentSeason(env.month), SnapshotTags[env.weather]).totalScore

\* scores.sort((a, b) => b.totalScore - a.totalScore).slice(0, 3): the sort
\* is stable and findMany returns the recipes by id.
TopScored(available, env) ==
    LET totalScore == [r \in available |-> TotalScore(r, env)]
    IN  { r \in available :
            Cardinality({ q \in available :
                            \/ totalScore[q] > totalScore[r]
                            \/ totalScore[q] = totalScore[r] /\ q < r })
              < TopCandidates }

\* A plausible slip: no retry with the exclusions cleared.
MutGenerateSuggestion(excludeRecipeIds, env) ==
    IF ~env.weatherOk THEN { [kind |-> "weatherError"] }
    ELSE LET availableRecipes == recipes \ excludeRecipeIds
         IN  IF availableRecipes = {}
             THEN { [kind |-> "noRecipes"] }
             ELSE { [kind |-> "ok", recipeId |-> r, retried |-> FALSE] :
                      r \in TopScored(availableRecipes, env) }

\* A plausible slip: excludeRecipeIds is not applied to the catalog.
MutGenerateUnfiltered(excludeRecipeIds, env) ==
    IF ~env.weatherOk THEN { [kind |-> "weatherError"] }
    ELSE IF recipes = {}
         THEN { [kind |-> "noRecipes"] }
         ELSE { [kind |-> "ok", recipeId |-> r, retried |-> recipes \subseteq excludeRecipeIds] :
                  r \in TopScored(recipes, env) }

\* generateSuggestion: the set of its possible outcomes (Math.random picks
\* among the top candidates). The recursive call finds the weather cached.
RECURSIVE generateSuggestion(_, _)
generateSuggestion(excludeRecipeIds, env) ==
    IF ~env.weatherOk THEN { [kind |-> "weatherError"] }
    ELSE LET availableRecipes == recipes \ excludeRecipeIds
         IN  IF availableRecipes = {}
             THEN IF recipes = {}
                  THEN { [kind |-> "noRecipes"] }
                  ELSE { [o EXCEPT !.retried = TRUE] : o \in generateSuggestion({}, env) }
             ELSE { [kind |-> "ok", recipeId |-> r, retried |-> FALSE] :
                      r \in TopScored(availableRecipes, env) }

\* ---- table updates ----

SuggestionRow(recipeId, date, status) ==
    [recipeId |-> recipeId, suggestedFor |-> date, status |-> status, createdAt |-> now]

\* db.update(suggestions).set({ status }).where(eq(suggestions.suggestedFor, date))
SetStatusFor(rows, date, status) ==
    [i \in 1..Len(rows) |->
        IF rows[i].suggestedFor = date THEN [rows[i] EXCEPT !.status = status] ELSE rows[i]]

\* A plausible slip: the update carries no where clause.
MutSetStatusOf(rows, id, status) ==
    [i \in 1..Len(rows) |-> [rows[i] EXCEPT !.status = status]]

\* db.update(suggestions).set({ status }).where(eq(suggestions.id, id))
SetStatusOf(rows, id, status) ==
    [i \in 1..Len(rows) |->
        IF i = id /\ rows[i] # DeletedRow THEN [rows[i] EXCEPT !.status = status]
        ELSE rows[i]]

\* ---- getTodaySuggestion calls in flight ----

MaxTodayCalls == 2  \* getTodaySuggestion calls in flight at a time

TodayCalls == 1..MaxTodayCalls

\* A call that has not started.
CallIdle == [pc |-> "idle", exclude |-> {}, id |-> 0]

\* No call in flight. `base` is the state the first call found: the number
\* of suggestions rows and whether a row of today was pending or accepted.
\* A call between two awaits is [pc, exclude, id]: its position, the
\* excludeIds it read and, once it has answered, the id of the suggestion
\* it returned (0 for an error).
TodayIdle == [calls |-> [p \in TodayCalls |-> CallIdle], base |-> Null]

\* getTodaySuggestion up to the await after its first query: the newest
\* row of today, returned when it is accepted or pending.
GetTodayRead(p) ==
    /\ todayRun.calls[p].pc = "idle"
    /\ \E top \in LatestSuggestionResults(today) :
          LET live == top # Null /\ suggestions[Val(top)].status \in { "accepted", "pending" }
          IN  todayRun' = [todayRun EXCEPT
                  !.calls[p] = IF live THEN [pc |-> "done", exclude |-> {}, id |-> Val(top)]
                               ELSE [pc |-> "exclude", exclude |-> {}, id |-> 0],
                  !.base = IF @ # Null THEN @
                           ELSE Some([rows |-> Len(suggestions),
                                      live |-> \E i \in SuggestionsFor(today) :
                                                  suggestions[i].status
                                                      \in { "accepted", "pending" }])]
    /\ UNCHANGED <<recipes, recipeSeq, suggestions, mealHistory, histSeq, weekPlan, today, now,
                   last>>

\* The second query, the rows of today, up to the awaits of
\* generateSuggestion.
GetTodayExclude(p) ==
    /\ todayRun.calls[p].pc = "exclude"
    /\ todayRun' = [todayRun EXCEPT
           !.calls[p] = [pc |-> "insert", exclude |-> SuggestedRecipeIds(today), id |-> 0]]
    /\ UNCHANGED <<recipes, recipeSeq, suggestions, mealHistory, histSeq, weekPlan, today, now,
                   last>>

\* generateSuggestion(excludeIds) and the insert of the pending row; an
\* error of generateSuggestion is answered 500.
GetTodayInsert(p) ==
    /\ todayRun.calls[p].pc = "insert"
    /\ \E env \in Environments :
       \E o \in generateSuggestion(todayRun.calls[p].exclude, env) :
          IF o.kind = "ok"
          THEN /\ suggestions' = Append(suggestions,
                                        SuggestionRow(o.recipeId, today, "pending"))
               /\ todayRun' = [todayRun EXCEPT
                      !.calls[p] = [pc |-> "done", exclude |-> @.exclude,
                                    id |-> Len(suggestions) + 1]]
          ELSE /\ suggestions' = suggestions
               /\ todayRun' = [todayRun EXCEPT
                      !.calls[p] = [pc |-> "done", exclude |-> @.exclude, id |-> 0]]
    /\ UNCHANGED <<recipes, recipeSeq, mealHistory, histSeq, weekPlan, today, now, last>>

\* The database after db/index has created the tables, before any request.
DbInit ==
    /\ recipes = {}
    /\ recipeSeq = 0
    /\ suggestions = << >>
    /\ mealHistory = {}
    /\ histSeq = 0
    /\ weekPlan = [d \in PlanDates |-> Null]
    /\ today = 0
    /\ now = 1
    /\ last = [op |-> "init"]
    /\ readLog = Null
    /\ todayRun = TodayIdle

Init == DbInit /\ scoreRun = ScoreIdle /\ shopRun = ShopIdle /\ WeatherInit /\ RaceInit

\* The handlers leave the function runs of SpecScore and SpecShop alone.
Quiet == UNCHANGED <<scoreRun, shopRun, weatherCache, weatherRun, raceRun>>

Idle == Quiet /\ UNCHANGED <<readLog, todayRun>>

\* ---- recipes: src/src/api/recipes.ts ----

\* POST /api/recipes while fewer than `max` recipes were ever created: the
\* new row takes the next AUTOINCREMENT id.
CreateRecipeWithin(max) ==
    /\ recipeSeq < max
    /\ recipes' = recipes \cup { recipeSeq + 1 }
    /\ recipeSeq' = recipeSeq + 1
    /\ last' = [op |-> "createRecipe", id |-> recipeSeq + 1]
    /\ UNCHANGED <<suggestions, mealHistory, histSeq, weekPlan, today, now>>

CreateRecipe == CreateRecipeWithin(MaxRecipes)

\* DELETE /api/recipes/:id, any id a client can send. Every table declares
\* its recipe_id as REFERENCES recipes(id) ON DELETE CASCADE, which SQLite
\* applies only on a connection with foreign_keys on; db/index never sets
\* the pragma, so the default of the SQLite build decides. The request is
\* modelled under either setting.
DeleteRecipe(id) ==
    \E foreignKeys \in BOOLEAN :
        /\ recipes' = recipes \ { id }
        /\ IF foreignKeys
           THEN /\ suggestions' = [i \in 1..Len(suggestions) |->
                                     IF suggestions[i].recipeId = id THEN DeletedRow
                                     ELSE suggestions[i]]
                /\ mealHistory' = { h \in mealHistory : h.recipeId # id }
                /\ weekPlan' = [d \in PlanDates |->
                                  IF weekPlan[d] # Null /\ Val(weekPlan[d]).recipeId = Some(id)
                                  THEN Null ELSE weekPlan[d]]
           ELSE UNCHANGED <<suggestions, mealHistory, weekPlan>>
        /\ last' = [op |-> "deleteRecipe", id |-> id, foreignKeys |-> foreignKeys,
                    existed |-> id \in recipes]
        /\ UNCHANGED <<recipeSeq, histSeq, today, now>>

\* ---- suggestions: src/src/services/suggestion.ts ----

\* The other reading of the documentation's open question: a cleared row
\* is returned like a pending one and suppresses regeneration.
MutGetTodaySuggestion ==
    \E top \in LatestSuggestionResults(today) :
        IF top # Null /\ suggestions[Val(top)].status \in { "accepted", "pending", "cleared" }
        THEN /\ last' = [op |-> "getToday", ok |-> TRUE, id |-> Val(top),
                         recipeId |-> suggestions[Val(top)].recipeId,
                         inserted |-> FALSE, gen |-> Null]
             /\ UNCHANGED <<recipes, recipeSeq, suggestions, mealHistory, histSeq, weekPlan, today, now>>
        ELSE \E env \in Environments :
             \E o \in generateSuggestion(SuggestedRecipeIds(today), env) :
                 /\ IF o.kind = "ok"
                    THEN /\ Len(suggestions) < MaxSuggestions
                         /\ suggestions' = Append(suggestions,
                                                  SuggestionRow(o.recipeId, today, "pending"))
                         /\ last' = [op |-> "getToday", ok |-> TRUE,
                                     id |-> Len(suggestions) + 1,
                                     recipeId |-> o.recipeId, inserted |-> TRUE,
                                     gen |-> Some([exclude |-> SuggestedRecipeIds(today),
                                                   weatherOk |-> env.weatherOk,
                                                   outcome |-> o])]
                    ELSE /\ suggestions' = suggestions
                         /\ last' = [op |-> "getToday", ok |-> FALSE, error |-> o.kind,
                                     inserted |-> FALSE,
                                     gen |-> Some([exclude |-> SuggestedRecipeIds(today),
                                                   weatherOk |-> env.weatherOk,
                                                   outcome |-> o])]
                 /\ UNCHANGED <<recipes, recipeSeq, mealHistory, histSeq, weekPlan, today, now>>

GetTodaySuggestion ==
    \E top \in LatestSuggestionResults(today) :
        IF top # Null /\ suggestions[Val(top)].status \in { "accepted", "pending" }
        THEN /\ last' = [op |-> "getToday", ok |-> TRUE, id |-> Val(top),
                         recipeId |-> suggestions[Val(top)].recipeId,
                         inserted |-> FALSE, gen |-> Null]
             /\ UNCHANGED <<recipes, recipeSeq, suggestions, mealHistory, histSeq, weekPlan, today, now>>
        ELSE \E env \in Environments :
             \E o \in generateSuggestion(SuggestedRecipeIds(today), env) :
                 /\ IF o.kind = "ok"
                    THEN /\ Len(suggestions) < MaxSuggestions
                         /\ suggestions' = Append(suggestions,
                                                  SuggestionRow(o.recipeId, today, "pending"))
                         /\ last' = [op |-> "getToday", ok |-> TRUE,
                                     id |-> Len(suggestions) + 1,
                                     recipeId |-> o.recipeId, inserted |-> TRUE,
                                     gen |-> Some([exclude |-> SuggestedRecipeIds(today),
                                                   weatherOk |-> env.weatherOk,
                                                   outcome |-> o])]
                    ELSE /\ suggestions' = suggestions
                         /\ last' = [op |-> "getToday", ok |-> FALSE, error |-> o.kind,
                                     inserted |-> FALSE,
                                     gen |-> Some([exclude |-> SuggestedRecipeIds(today),
                                                   weatherOk |-> env.weatherOk,
                                                   outcome |-> o])]
                 /\ UNCHANGED <<recipes, recipeSeq, mealHistory, histSeq, weekPlan, today, now>>

\* POST /api/suggestions/generate: generateSuggestion() with no exclusions.
GenerateEndpoint ==
    \E env \in Environments :
    \E o \in generateSuggestion({}, env) :
        /\ last' = [op |-> "generate", ok |-> o.kind = "ok",
                    gen |-> Some([exclude |-> {}, weatherOk |-> env.weatherOk,
                                  outcome |-> o])]
        /\ UNCHANGED <<recipes, recipeSeq, suggestions, mealHistory, histSeq, weekPlan, today, now>>

\* A plausible slip: the status update matches the suggestion's date, not
\* its id.
MutAcceptSuggestion(suggestionId) ==
    IF suggestionId \in SuggestionIds
    THEN /\ histSeq < MaxHistory
         /\ suggestions' = SetStatusFor(suggestions, suggestions[suggestionId].suggestedFor,
                                        "accepted")
         /\ mealHistory' = mealHistory \cup
                { [id |-> histSeq + 1, recipeId |-> suggestions[suggestionId].recipeId,
                   eatenAt |-> today, by |-> suggestionId] }
         /\ histSeq' = histSeq + 1
         /\ last' = [op |-> "accept", id |-> suggestionId, ok |-> TRUE,
                     historyId |-> histSeq + 1]
         /\ UNCHANGED <<recipes, recipeSeq, weekPlan, today, now>>
    ELSE /\ last' = [op |-> "accept", id |-> suggestionId, ok |-> FALSE,
                     error |-> "Suggestion not found"]
         /\ UNCHANGED <<recipes, recipeSeq, suggestions, mealHistory, histSeq, weekPlan,
                        today, now>>

\* acceptSuggestion(suggestionId), any id a client can send.
AcceptSuggestion(suggestionId) ==
    IF suggestionId \in SuggestionIds
    THEN /\ histSeq < MaxHistory
         /\ suggestions' = SetStatusOf(suggestions, suggestionId, "accepted")
         /\ mealHistory' = mealHistory \cup
                { [id |-> histSeq + 1, recipeId |-> suggestions[suggestionId].recipeId,
                   eatenAt |-> today, by |-> suggestionId] }
         /\ histSeq' = histSeq + 1
         /\ last' = [op |-> "accept", id |-> suggestionId, ok |-> TRUE,
                     historyId |-> histSeq + 1]
         /\ UNCHANGED <<recipes, recipeSeq, weekPlan, today, now>>
    ELSE /\ last' = [op |-> "accept", id |-> suggestionId, ok |-> FALSE,
                     error |-> "Suggestion not found"]
         /\ UNCHANGED <<recipes, recipeSeq, suggestions, mealHistory, histSeq, weekPlan, today, now>>

\* The delete of rejectSuggestion: the rows of the recipe eaten within
\* [todayStart, tomorrowStart).
HistoryAfterReject(suggestionId) ==
    IF suggestionId \in SuggestionIds /\ suggestions[suggestionId].status = "accepted"
    THEN { h \in mealHistory :
             ~(h.recipeId = suggestions[suggestionId].recipeId /\ h.eatenAt = today) }
    ELSE mealHistory

\* rejectSuggestion(suggestionId), any id a client can send. No transaction
\* wraps the steps: when generateSuggestion throws, the delete and the
\* status update stay.
RejectSuggestion(suggestionId) ==
    LET wasAccepted == suggestionId \in SuggestionIds
                       /\ suggestions[suggestionId].status = "accepted"
        rejected == SetStatusOf(suggestions, suggestionId, "rejected")
        excludeIds == SuggestedRecipeIds(today)
    IN  \E env \in Environments :
        \E o \in generateSuggestion(excludeIds, env) :
            /\ mealHistory' = HistoryAfterReject(suggestionId)
            /\ IF o.kind = "ok"
               THEN /\ Len(suggestions) < MaxSuggestions
                    /\ suggestions' = Append(rejected,
                                             SuggestionRow(o.recipeId, today, "pending"))
                    /\ last' = [op |-> "reject", id |-> suggestionId, ok |-> TRUE,
                                wasAccepted |-> wasAccepted,
                                newId |-> Len(suggestions) + 1, recipeId |-> o.recipeId,
                                gen |-> Some([exclude |-> excludeIds,
                                              weatherOk |-> env.weatherOk, outcome |-> o])]
               ELSE /\ suggestions' = rejected
                    /\ last' = [op |-> "reject", id |-> suggestionId, ok |-> FALSE,
                                wasAccepted |-> wasAccepted, error |-> o.kind,
                                gen |-> Some([exclude |-> excludeIds,
                                              weatherOk |-> env.weatherOk, outcome |-> o])]
            /\ UNCHANGED <<recipes, recipeSeq, histSeq, weekPlan, today, now>>

\* ---- meal history: src/src/api/shopping.ts (history routes) ----

\* Days before today a client dates a logged meal.
EatenOffsets == { 0, 1 }

\* POST /api/history
LogMeal(recipeId, offset) ==
    /\ histSeq < MaxHistory
    /\ mealHistory' = mealHistory \cup
           { [id |-> histSeq + 1, recipeId |-> recipeId, eatenAt |-> today - offset, by |-> 0] }
    /\ histSeq' = histSeq + 1
    /\ last' = [op |-> "logMeal", historyId |-> histSeq + 1]
    /\ UNCHANGED <<recipes, recipeSeq, suggestions, weekPlan, today, now>>

\* DELETE /api/history/:id
DeleteHistory(id) ==
    /\ \E h \in mealHistory : h.id = id
    /\ mealHistory' = { h \in mealHistory : h.id # id }
    /\ last' = [op |-> "deleteHistory", historyId |-> id]
    /\ UNCHANGED <<recipes, recipeSeq, suggestions, histSeq, weekPlan, today, now>>


\* ---- week plan: src/src/index.ts ----

\* Weather tags the forecast provider attaches to a day.
ForecastTagLists == { << >>, << "koud", "regenachtig" >> }

\* forecast.filter(d => d.date !== today): the days after today of a
\* forecast that covers n days, n up to ForecastDays.
Forecasts ==
    UNION { { [i \in 1..n |-> [date |-> today + i, weatherTags |-> tg[i]]] :
                tg \in [1..n -> ForecastTagLists] } :
            n \in 0..ForecastDays }

\* [todayData, ...forecast.filter(...)].slice(0, 7)
AllDays(forecast) ==
    LET all == << [date |-> today, weatherTags |-> << >>] >> \o forecast
    IN  SubSeq(all, 1, Min(Len(all), WeekLength))

\* The candidates that can come first after scored.sort(): each score is
\* base[r] plus Math.random() * jitter, a number in [0, jitter).
TopWithJitter(available, base, jitter) ==
    { r \in available : \A q \in available : base[q] - base[r] < jitter }

\* A plausible slip: the season is looked up in the recipe's weather tags.
MutSeasonPoints(r, currentSeason) ==
    IF currentSeason \in Elems(RecipeWeatherTags(r)) THEN 30 ELSE 0

\* if (recipeSeasons.includes(currentSeason)) score += 30
SeasonPoints(r, currentSeason) ==
    IF currentSeason \in Elems(RecipeSeasons(r)) THEN 30 ELSE 0

PlanRow(recipeId, cleared) == [recipeId |-> recipeId, cleared |-> cleared]

\* A day of the response. `source` names the branch that produced it and
\* `weatherTags` holds the forecast tags a generated day was scored with
\* (both ghost fields; the other branches do not read the tags).
DayOut(date, recipe, status, source, weatherTags) ==
    [date |-> date, recipe |-> recipe, status |-> status, source |-> source,
     weatherTags |-> weatherTags]

\* A plausible slip: the recipes already used in the window stay candidates.
MutAvailableRecipes(usedRecipeIds) == recipes

\* allRecipes.filter(r => !usedRecipeIds.includes(r.id)) of GET /api/weekplan
AvailableRecipes(usedRecipeIds) == recipes \ usedRecipeIds

\* A plausible slip: the generated pick is returned and not stored.
MutStorePick(wp, date, recipeId) == wp

\* db.insert(weekPlan).values({ date, recipeId, ... }).onConflictDoNothing()
\* in the branch that found no row for the date.
StorePick(wp, date, recipeId) ==
    [wp EXCEPT ![date] = Some(PlanRow(Some(recipeId), FALSE))]

\* The loop of GET /api/weekplan from day i on: the set of its outcomes,
\* each the week_plan table and the response it ends with. `top` is the
\* result of the todaySuggestion query, `used` is usedRecipeIds.
RECURSIVE ResolveDays(_, _, _, _, _, _, _)
ResolveDays(days, i, top, currentSeason, used, wp, out) ==
    IF i > Len(days) THEN { [weekPlan |-> wp, result |-> out] }
    ELSE
    LET day == days[i]
        hasSuggestion == day.date = today /\ top # Null
        suggestion == suggestions[Val(top)]
        stored == wp[day.date]
        base == [r \in recipes |->
                    SeasonPoints(r, currentSeason)
                    + MatchingTags(RecipeWeatherTags(r), day.weatherTags) * 15]
        availableRecipes == AvailableRecipes(used)
        next(used2, wp2, recipe, status, source) ==
            ResolveDays(days, i + 1, top, currentSeason, used2, wp2,
                        Append(out, DayOut(day.date, recipe, status, source,
                                           IF source = "generated" THEN day.weatherTags
                                           ELSE << >>)))
    IN  IF hasSuggestion /\ suggestion.status = "cleared"
        THEN next(used, wp, Null, Some("cleared"), "suggestion")
        ELSE IF hasSuggestion /\ suggestion.recipeId \in recipes
        THEN next(used \cup { suggestion.recipeId }, wp, Some(suggestion.recipeId),
                  Some(suggestion.status), "suggestion")
        ELSE IF stored # Null
        THEN IF Val(stored).cleared
             THEN next(used, wp, Null, Some("cleared"), "stored")
             ELSE LET rid == Val(stored).recipeId
                  IN  next(IF rid # Null THEN used \cup { Val(rid) } ELSE used, wp,
                           IF rid # Null /\ Val(rid) \in recipes THEN rid ELSE Null,
                           Null, "stored")
        ELSE IF availableRecipes = {}
        THEN next(used, wp, Null, Null, "generated")
        ELSE UNION { next(used \cup { r },
                          StorePick(wp, day.date, r),
                          Some(r), Null, "generated") :
                     r \in TopWithJitter(availableRecipes, base, 10) }

\* GET /api/weekplan
GetWeekPlan ==
    \E forecastOk \in BOOLEAN, env \in Environments :
        IF ~forecastOk \/ ~env.weatherOk
        THEN /\ last' = [op |-> "weekplan", ok |-> FALSE, status |-> 500]
             /\ UNCHANGED <<recipes, recipeSeq, suggestions, mealHistory, histSeq, weekPlan, today, now>>
        ELSE \E forecast \in Forecasts, top \in LatestSuggestionResults(today) :
             \E o \in ResolveDays(AllDays(forecast), 1, top, getCurrentSeason(env.month),
                                  {}, weekPlan, << >>) :
                 /\ weekPlan' = o.weekPlan
                 /\ last' = [op |-> "weekplan", ok |-> TRUE, status |-> 200,
                             days |-> o.result,
                             season |-> getCurrentSeason(env.month), top |-> top]
                 /\ UNCHANGED <<recipes, recipeSeq, suggestions, mealHistory, histSeq, today, now>>

\* PUT /api/weekplan/:date with body { recipeId }; recipeId 0 stands for a
\* missing or non-numeric recipeId.
SetDayRecipe(date, recipeId) ==
    IF recipeId = 0
    THEN /\ last' = [op |-> "setDay", date |-> date, ok |-> FALSE, status |-> 400]
         /\ UNCHANGED <<recipes, recipeSeq, suggestions, mealHistory, histSeq, weekPlan, today, now>>
    ELSE IF recipeId \notin recipes
    THEN /\ last' = [op |-> "setDay", date |-> date, ok |-> FALSE, status |-> 404]
         /\ UNCHANGED <<recipes, recipeSeq, suggestions, mealHistory, histSeq, weekPlan, today, now>>
    ELSE IF date = today
    THEN \E env \in Environments :
            IF ~env.weatherOk
            THEN /\ last' = [op |-> "setDay", date |-> date, ok |-> FALSE, status |-> 500]
                 /\ UNCHANGED <<recipes, recipeSeq, suggestions, mealHistory, histSeq, weekPlan,
                                today, now>>
            ELSE /\ Len(suggestions) < MaxSuggestions
                 /\ suggestions' = Append(SetStatusFor(suggestions, date, "rejected"),
                                          SuggestionRow(recipeId, date, "accepted"))
                 /\ last' = [op |-> "setDay", date |-> date, ok |-> TRUE, status |-> 200,
                             recipeId |-> recipeId]
                 /\ UNCHANGED <<recipes, recipeSeq, mealHistory, histSeq, weekPlan, today, now>>
    ELSE /\ weekPlan' = [weekPlan EXCEPT ![date] =
                            IF @ # Null
                            THEN Some([Val(@) EXCEPT !.recipeId = Some(recipeId),
                                                     !.cleared = FALSE])
                            ELSE Some(PlanRow(Some(recipeId), FALSE))]
         /\ last' = [op |-> "setDay", date |-> date, ok |-> TRUE, status |-> 200,
                     recipeId |-> recipeId]
         /\ UNCHANGED <<recipes, recipeSeq, suggestions, mealHistory, histSeq, today, now>>

\* DELETE /api/weekplan/:date
ClearDay(date) ==
    /\ suggestions' = IF date = today THEN SetStatusFor(suggestions, date, "cleared")
                      ELSE suggestions
    /\ weekPlan' = [weekPlan EXCEPT ![date] =
                       IF @ # Null
                       THEN Some([Val(@) EXCEPT !.cleared = TRUE, !.recipeId = Null])
                       ELSE Some(PlanRow(Null, TRUE))]
    /\ last' = [op |-> "clearDay", date |-> date, ok |-> TRUE, status |-> 200]
    /\ UNCHANGED <<recipes, recipeSeq, mealHistory, histSeq, today, now>>

\* A plausible slip: today's suggestions are not excluded.
MutUsedWithoutToday(date) ==
    { Val(Val(weekPlan[d]).recipeId) :
        d \in { e \in PlanDates : e # date /\ weekPlan[e] # Null
                                  /\ Val(weekPlan[e]).recipeId # Null } }

\* A plausible slip: the other dates' plans are not excluded.
MutUsedRecipeIds(date) ==
    IF date = today THEN SuggestedRecipeIds(date) ELSE {}

\* usedRecipeIds of POST /api/weekplan/:date/regenerate: the recipe ids of
\* the week_plan rows of the other dates (a NULL matches no recipe) and, for
\* today, of today's suggestions.
UsedRecipeIds(date) ==
    { Val(Val(weekPlan[d]).recipeId) :
        d \in { e \in PlanDates : e # date /\ weekPlan[e] # Null
                                  /\ Val(weekPlan[e]).recipeId # Null } }
    \cup (IF date = today THEN SuggestedRecipeIds(date) ELSE {})

\* POST /api/weekplan/:date/regenerate. For today the response record keeps
\* `was`, the statuses today's rows had before the update (a ghost field).
RegenerateDay(date) ==
    \E env \in Environments :
    LET availableRecipes == recipes \ UsedRecipeIds(date)
        base == [r \in recipes |-> SeasonPoints(r, getCurrentSeason(env.month))]
    IN  IF availableRecipes = {}
        THEN /\ last' = [op |-> "regenerate", date |-> date, ok |-> FALSE, status |-> 400]
             /\ UNCHANGED <<recipes, recipeSeq, suggestions, mealHistory, histSeq, weekPlan, today, now>>
        ELSE \E newRecipe \in TopWithJitter(availableRecipes, base, 20) :
             IF date = today
             THEN IF ~env.weatherOk
                  THEN /\ last' = [op |-> "regenerate", date |-> date, ok |-> FALSE,
                                   status |-> 500]
                       /\ UNCHANGED <<recipes, recipeSeq, suggestions, mealHistory, histSeq, weekPlan,
                                      today, now>>
                  ELSE /\ Len(suggestions) < MaxSuggestions
                       /\ suggestions' = Append(SetStatusFor(suggestions, date, "rejected"),
                                                SuggestionRow(newRecipe, date, "pending"))
                       /\ last' = [op |-> "regenerate", date |-> date, ok |-> TRUE,
                                   status |-> 200, recipeId |-> newRecipe,
                                   was |-> { suggestions[i].status :
                                               i \in SuggestionsFor(date) }]
                       /\ UNCHANGED <<recipes, recipeSeq, mealHistory, histSeq, weekPlan, today, now>>
             ELSE /\ weekPlan' = [weekPlan EXCEPT ![date] =
                                     IF @ # Null
                                     THEN Some([Val(@) EXCEPT !.recipeId = Some(newRecipe)])
                                     ELSE Some(PlanRow(Some(newRecipe), FALSE))]
                  /\ last' = [op |-> "regenerate", date |-> date, ok |-> TRUE,
                              status |-> 200, recipeId |-> newRecipe]
                  /\ UNCHANGED <<recipes, recipeSeq, suggestions, mealHistory, histSeq, today, now>>

\* ---- shopping list: src/src/api/shopping.ts ----

\* The ingredient lines of the recipe with a given id.
RecipeIngredients(r) ==
    CASE r % 4 = 1 -> << [name |-> "ui", amount |-> Some(1), unit |-> Null] >>
      [] r % 4 = 2 -> << [name |-> "rode ui", amount |-> Some(2), unit |-> Null],
                         [name |-> "Kokosmelk", amount |-> Some(200), unit |-> Some("g")] >>
      [] r % 4 = 3 -> << [name |-> "kipfilet", amount |-> Null, unit |-> Null] >>
      [] OTHER     -> << >>

\* .orderBy(suggestions.createdAt).limit(1) of GET /api/shopping: the order
\* is ascending, so the query returns a row of the earliest second.
EarliestSuggestionResults(date) ==
    IF SuggestionsFor(date) = {} THEN { Null }
    ELSE { Some(i) : i \in { k \in SuggestionsFor(date) :
                                \A j \in SuggestionsFor(date) :
                                    suggestions[k].createdAt <= suggestions[j].createdAt } }

\* Array.from(...).sort(([a], [b]) => a.localeCompare(b)) on the dates.
RECURSIVE SortedDates(_)
SortedDates(dates) ==
    IF dates = {} THEN << >>
    ELSE LET first == CHOOSE d \in dates : \A e \in dates : d <= e
         IN  << first >> \o SortedDates(dates \ { first })

\* dateToRecipeId, filtered to date >= today, sorted and sliced to 7: the
\* suggestion the query returned is set for today first, then every
\* week_plan row sets its date (a NULL recipe_id included).
ShoppingDates(top) ==
    LET planned == { d \in PlanDates : weekPlan[d] # Null }
        dates == planned \cup (IF top # Null THEN { today } ELSE {})
        sorted == SortedDates({ d \in dates : d >= today })
        recipeOf(d) == IF d \in planned THEN Val(weekPlan[d]).recipeId
                       ELSE Some(suggestions[Val(top)].recipeId)
    IN  [k \in 1..Min(Len(sorted), WeekLength) |->
            [date |-> sorted[k], recipeId |-> recipeOf(sorted[k])]]

\* The loop over sortedDates: recipesInPlan, skipping the dates whose recipe
\* is not in recipeMap.
RECURSIVE RecipesInPlan(_)
RecipesInPlan(sortedDates) ==
    IF sortedDates = << >> THEN << >>
    ELSE LET e == Head(sortedDates)
         IN  (IF e.recipeId # Null /\ Val(e.recipeId) \in recipes
              THEN << [id |-> Val(e.recipeId), date |-> e.date] >>
              ELSE << >>)
             \o RecipesInPlan(Tail(sortedDates))

\* allIngredients: the lines of the recipes of the plan, in plan order.
RECURSIVE AllIngredients(_)
AllIngredients(ids) ==
    IF ids = << >> THEN << >>
    ELSE LET r == Head(ids)
             lines == RecipeIngredients(r)
         IN  [i \in 1..Len(lines) |->
                 [name |-> lines[i].name, amount |-> lines[i].amount,
                  unit |-> lines[i].unit, recipeId |-> r]]
             \o AllIngredients(Tail(ids))

\* mergeIngredients(allIngredients) of every plan of catalog recipes,
\* evaluated once.
MergedItems ==
    [ids \in UNION { [1..n -> RecipeIds] : n \in 0..Min(Cardinality(PlanDates), WeekLength) }
        |-> mergeIngredients(AllIngredients(ids))]

\* GET /api/shopping. `grouped` of the response holds the same items by
\* category.
GetShoppingList ==
    \E top \in EarliestSuggestionResults(today) :
        LET recipesInPlan == RecipesInPlan(ShoppingDates(top))
        IN  /\ last' = [op |-> "shopping", ok |-> TRUE,
                        recipes |-> recipesInPlan,
                        items |-> MergedItems[[k \in 1..Len(recipesInPlan) |->
                                                  recipesInPlan[k].id]]]
            /\ UNCHANGED <<recipes, recipeSeq, suggestions, mealHistory, histSeq, weekPlan,
                           today, now>>

\* ---- the clock ----

\* A second passes. createdAt is compared, never measured, so the clock only
\* needs to move past the newest row.
Tick ==
    /\ \E i \in SuggestionIds : suggestions[i].createdAt = now
    /\ now' = now + 1
    /\ UNCHANGED <<recipes, recipeSeq, suggestions, mealHistory, histSeq, weekPlan, today, last>>

\* Midnight passes.
NextDay ==
    /\ today < MaxToday
    /\ today' = today + 1
    /\ now' = IF \E i \in SuggestionIds : suggestions[i].createdAt = now
              THEN now + 1 ELSE now
    /\ last' = [op |-> "newDay"]
    /\ UNCHANGED <<recipes, recipeSeq, suggestions, mealHistory, histSeq, weekPlan>>

\* The suggestion requests and the week plan handlers on today, which write
\* the suggestions table; the meal history stays empty.
Next ==
    \/ CreateRecipe /\ Idle
    \/ GetTodaySuggestion /\ Idle
    \/ GenerateEndpoint /\ Idle
    \/ \E id \in 1..MaxSuggestions : RejectSuggestion(id) /\ Idle
    \/ \E r \in 0..MaxRecipes : SetDayRecipe(today, r) /\ Idle
    \/ ClearDay(today) /\ Idle
    \/ RegenerateDay(today) /\ Idle
    \/ Tick /\ Idle

Spec == Init /\ [][Next]_vars

\* The suggestion requests with the meal history, over days.
HistorySuggestions == 2  \* suggestions rows ever inserted under SpecHistory

HistoryCap == Idle /\ Len(suggestions') <= HistorySuggestions

NextHistory ==
    \/ CreateRecipe /\ HistoryCap
    \/ GetTodaySuggestion /\ HistoryCap
    \/ \E id \in 1..HistorySuggestions : AcceptSuggestion(id) /\ HistoryCap
    \/ \E id \in 1..HistorySuggestions : RejectSuggestion(id) /\ HistoryCap
    \/ \E r \in recipes, offset \in EatenOffsets : LogMeal(r, offset) /\ HistoryCap
    \/ \E id \in 1..MaxHistory : DeleteHistory(id) /\ HistoryCap
    \/ Tick /\ HistoryCap
    \/ NextDay /\ HistoryCap

SpecHistory == Init /\ [][NextHistory]_vars

\* The week plan handlers on every date of the window, with the request
\* that decides today's entry and the clock; the meal history stays empty.
PlanSuggestions == 2  \* suggestions rows ever inserted under SpecPlan

PlanCap == Idle /\ Len(suggestions') <= PlanSuggestions

\* The dates GET /api/weekplan can show.
WindowDates == today..(today + ForecastDays)

NextPlan ==
    \/ CreateRecipe /\ PlanCap
    \/ GetTodaySuggestion /\ PlanCap
    \/ GetWeekPlan /\ PlanCap
    \/ \E date \in WindowDates, r \in 0..MaxRecipes : SetDayRecipe(date, r) /\ PlanCap
    \/ \E date \in WindowDates : ClearDay(date) /\ PlanCap
    \/ \E date \in WindowDates : RegenerateDay(date) /\ PlanCap
    \/ Tick /\ PlanCap

SpecPlan == Init /\ [][NextPlan]_vars

\* Every handler that writes the status of today's suggestions, with the
\* meal history: accept and reject with the week plan handlers on today.
TodayRows == 4  \* suggestions and meal_history rows ever inserted under SpecToday

TodayCap == Idle /\ Len(suggestions') + histSeq' <= TodayRows

NextToday ==
    \/ CreateRecipe /\ TodayCap
    \/ GetTodaySuggestion /\ TodayCap
    \/ \E id \in 1..MaxSuggestions : AcceptSuggestion(id) /\ TodayCap
    \/ \E id \in 1..MaxSuggestions : RejectSuggestion(id) /\ TodayCap
    \/ \E r \in 0..MaxRecipes : SetDayRecipe(today, r) /\ TodayCap
    \/ ClearDay(today) /\ TodayCap
    \/ RegenerateDay(today) /\ TodayCap
    \/ Tick /\ TodayCap

SpecToday == Init /\ [][NextToday]_vars

\* Recipe deletes among the requests that write rows referencing a recipe.
DeleteRows == 3  \* suggestions and meal_history rows ever inserted under SpecDelete

DeleteCap == Idle /\ Len(suggestions') + histSeq' <= DeleteRows

NextDelete ==
    \/ CreateRecipe /\ DeleteCap
    \/ \E id \in 1..MaxRecipes : DeleteRecipe(id) /\ DeleteCap
    \/ GetTodaySuggestion /\ DeleteCap
    \/ \E id \in 1..MaxSuggestions : AcceptSuggestion(id) /\ DeleteCap
    \/ \E id \in 1..MaxSuggestions : RejectSuggestion(id) /\ DeleteCap
    \/ \E r \in recipes : LogMeal(r, 0) /\ DeleteCap
    \/ \E r \in recipes : SetDayRecipe(today + 1, r) /\ DeleteCap
    \/ RegenerateDay(today + 1) /\ DeleteCap

SpecDelete == Init /\ [][NextDelete]_vars

\* The shopping list among the requests that decide the plan of today and
\* of the later dates.
ShoppingSuggestions == 2  \* suggestions rows ever inserted under SpecShopping

ShoppingCap == Idle /\ Len(suggestions') <= ShoppingSuggestions

NextShopping ==
    \/ CreateRecipe /\ ShoppingCap
    \/ GetTodaySuggestion /\ ShoppingCap
    \/ GetWeekPlan /\ ShoppingCap
    \/ GetShoppingList /\ ShoppingCap
    \/ \E r \in recipes : SetDayRecipe(today, r) /\ ShoppingCap
    \/ \E date \in WindowDates : ClearDay(date) /\ ShoppingCap
    \/ Tick /\ ShoppingCap

SpecShopping == Init /\ [][NextShopping]_vars

\* The week plan read over a catalog of three recipes, with manual choices
\* for the later dates and the day rollover; the suggestions stay empty.
ResolveRecipes == 3  \* recipes ever created under SpecResolve

NextResolve ==
    \/ CreateRecipeWithin(ResolveRecipes) /\ Idle
    \/ GetWeekPlan /\ Idle
    \/ \E date \in WindowDates \ { today }, r \in recipes : SetDayRecipe(date, r) /\ Idle
    \/ NextDay /\ Idle

SpecResolve == Init /\ [][NextResolve]_vars

\* The week plan handlers over days: the rows of a day stay in week_plan
\* after its midnight.
PastSuggestions == 2  \* suggestions rows ever inserted under SpecPast

PastCap == Idle /\ Len(suggestions') <= PastSuggestions

NextPast ==
    \/ CreateRecipe /\ PastCap
    \/ GetWeekPlan /\ PastCap
    \/ \E date \in WindowDates \ { today }, r \in recipes : SetDayRecipe(date, r) /\ PastCap
    \/ \E date \in WindowDates : RegenerateDay(date) /\ PastCap
    \/ NextDay /\ PastCap

SpecPast == Init /\ [][NextPast]_vars

\* Two getTodaySuggestion calls that overlap at their awaits, after the
\* requests that prepare the day.
OverlapSuggestions == 2  \* suggestions rows inserted before the calls under SpecOverlap

Prepares == todayRun.base = Null /\ Len(suggestions') <= OverlapSuggestions /\ Idle

InFlight == Quiet /\ UNCHANGED readLog

NextOverlap ==
    \/ CreateRecipe /\ Prepares
    \/ GetTodaySuggestion /\ Prepares
    \/ \E id \in 1..OverlapSuggestions : AcceptSuggestion(id) /\ Prepares
    \/ \E id \in 1..OverlapSuggestions : RejectSuggestion(id) /\ Prepares
    \/ Tick /\ Idle
    \/ \E p \in TodayCalls : GetTodayRead(p) /\ InFlight
    \/ \E p \in TodayCalls : GetTodayExclude(p) /\ InFlight
    \/ \E p \in TodayCalls : GetTodayInsert(p) /\ InFlight

SpecOverlap == Init /\ [][NextOverlap]_vars

\* Week plan reads one after another, among the requests that decide what a
\* read finds; readLog keeps the response of the read before the last one.
ReadsSuggestions == 2  \* suggestions rows ever inserted under SpecReads

ReadsCap == Len(suggestions') <= ReadsSuggestions

\* What a week plan response shows: the recipe of every date and the branch
\* that produced it, with the row the todaySuggestion query returned.
ReadOf(response) ==
    [days |-> [i \in DOMAIN response.days |->
                  [date |-> response.days[i].date, recipe |-> response.days[i].recipe,
                   source |-> response.days[i].source]],
     top |-> response.top]

\* The request before this one, when it was a week plan read that succeeded.
ReadLogged ==
    /\ readLog' = IF last.op = "weekplan" /\ last.ok THEN Some(ReadOf(last)) ELSE Null
    /\ Quiet
    /\ UNCHANGED todayRun

NextReads ==
    \/ CreateRecipe /\ Idle
    \/ GetWeekPlan /\ ReadLogged
    \/ \E date \in WindowDates, r \in recipes : SetDayRecipe(date, r) /\ ReadsCap /\ Idle
    \/ \E date \in WindowDates : ClearDay(date) /\ ReadsCap /\ Idle

SpecReads == Init /\ [][NextReads]_vars

\* getCurrentWeather on its own: calls that overlap, the provider and the
\* clock.
NextWeather ==
    \/ WeatherStart /\ UNCHANGED <<dbVars, scoreRun, shopRun, raceRun>>
    \/ \E call \in weatherRun.pending, ok \in BOOLEAN, data \in Snapshots :
           WeatherAnswer(call, ok, data) /\ UNCHANGED <<dbVars, scoreRun, shopRun, raceRun>>
    \/ WeatherExpire /\ UNCHANGED <<dbVars, scoreRun, shopRun, raceRun>>
    \/ WeatherMidnight /\ UNCHANGED <<dbVars, scoreRun, shopRun, raceRun>>

SpecWeather == Init /\ [][NextWeather]_vars

\* Requests on one date of the week plan that overlap at their awaits.
NextRace ==
    \/ CreateRecipe /\ Idle
    \/ \E p \in RaceProcs, r \in recipes :
           RaceFind(p, "setDay", Some(r)) /\ UNCHANGED <<dbVars, scoreRun, shopRun, weatherCache, weatherRun>>
    \/ \E p \in RaceProcs :
           RaceFind(p, "clearDay", Null) /\ UNCHANGED <<dbVars, scoreRun, shopRun, weatherCache, weatherRun>>
    \/ \E p \in RaceProcs, r \in recipes :
           RaceFind(p, "regenerate", Some(r)) /\ UNCHANGED <<dbVars, scoreRun, shopRun, weatherCache, weatherRun>>
    \/ \E p \in RaceProcs, r \in recipes :
           RaceFind(p, "weekplan", Some(r)) /\ UNCHANGED <<dbVars, scoreRun, shopRun, weatherCache, weatherRun>>
    \/ \E p \in RaceProcs :
           RaceWrite(p) /\ UNCHANGED <<dbVars, scoreRun, shopRun, weatherCache, weatherRun>>

SpecRace == Init /\ [][NextRace]_vars

\* scoreRecipe and getWeatherTags on their own.
NextScore == ScoreOne /\ UNCHANGED <<dbVars, shopRun, weatherCache, weatherRun, raceRun>>

InitScore == DbInit /\ ScoreInit /\ shopRun = ShopIdle /\ WeatherInit /\ RaceInit

SpecScore == InitScore /\ [][NextScore]_vars

\* mergeIngredients on its own.
NextShop == ShopMerge /\ UNCHANGED <<dbVars, scoreRun, weatherCache, weatherRun, raceRun>>

InitShop == DbInit /\ ShopInit /\ scoreRun = ScoreIdle /\ WeatherInit /\ RaceInit

SpecShop == InitShop /\ [][NextShop]_vars

(***************************************************************************)
(* Properties of mergeIngredients, checked under SpecShop.                 *)
(***************************************************************************)
ShopDone == shopRun.phase = "done"

\* The item of a finished merge that holds line i (line i is recipe i's).
ItemOf(i) ==
    CHOOSE g \in 1..Len(shopRun.items) :
        \E k \in 1..Len(shopRun.items[g].sources) : shopRun.items[g].sources[k].recipeId = i

\* The leading descriptors the documentation lists, longer form first.
ClaimLeadingDescriptors ==
    << "verse", "vers", "biologische", "biologisch", "grote", "groot", "kleine", "klein",
       "rode", "rood", "groene", "groen", "gele", "geel", "witte", "wit" >>

\* Normalization as documented: lower-case, trim, collapse whitespace, strip
\* a leading descriptor of the documented set and a trailing form.
ClaimNormalize(name) ==
    StripTrailing(StripLeadingOf(ClaimLeadingDescriptors,
                                 CollapseWhitespace(Trim(ToLowerCase(name)))))

\* C7 (as stated): two lines of a request end in one shopping-list item
\* exactly when their names are equal after the documented normalization,
\* which strips every leading descriptor of the documented set of 16 words.
C7_MergeIffDocumentedNormalization ==
    ShopDone =>
        \A i, j \in 1..Len(shopRun.lines) :
            (ItemOf(i) = ItemOf(j))
                <=> (ClaimNormalize(shopRun.lines[i].name)
                        = ClaimNormalize(shopRun.lines[j].name))

\* The line indices of a finished merge whose normalized name is the item's.
Occurrences(g) ==
    { i \in 1..Len(shopRun.lines) :
        normalizeIngredientName(shopRun.lines[i].name) = shopRun.items[g].name }

\* The k-th smallest element of a set of numbers.
RECURSIVE Nth(_, _)
Nth(S, k) ==
    LET m == CHOOSE x \in S : \A y \in S : x <= y
    IN  IF k = 1 THEN m ELSE Nth(S \ { m }, k - 1)

RECURSIVE SumAmounts(_)
SumAmounts(S) ==
    IF S = {} THEN 0
    ELSE LET i == CHOOSE x \in S : TRUE
         IN  Val(shopRun.lines[i].amount) + SumAmounts(S \ { i })

\* C8: for each merge group, the item's amount is the sum of the amounts and
\* its unit the shared unit exactly when every occurrence has an amount and
\* all units are equal ignoring case (null as empty); otherwise the item
\* keeps the first occurrence's amount and unit. Every occurrence is in
\* sources, in encounter order.
C8_CombinedAmount ==
    ShopDone =>
        \A g \in 1..Len(shopRun.items) :
            LET item == shopRun.items[g]
                occ == Occurrences(g)
                first == shopRun.lines[Nth(occ, 1)]
                units == { UnitKey(shopRun.lines[i].unit) : i \in occ }
                summed == /\ \A i \in occ : shopRun.lines[i].amount # Null
                          /\ Cardinality(units) = 1
            IN  /\ occ # {}
                /\ IF summed
                   THEN /\ item.amount = Some(SumAmounts(occ))
                        /\ item.unit = (IF units = { "" } THEN Null
                                        ELSE Some(CHOOSE u \in units : TRUE))
                   ELSE /\ item.amount = first.amount
                        /\ item.unit = first.unit
                /\ Len(item.sources) = Cardinality(occ)
                /\ \A k \in 1..Len(item.sources) :
                       LET line == shopRun.lines[Nth(occ, k)]
                       IN  item.sources[k] = [recipeId |-> line.recipeId,
                                              amount |-> line.amount, unit |-> line.unit]

\* C8 witness: "2 ui" and "1 rode ui" are merged into one item of amount 3,
\* with both occurrences in its sources.
C8_Witness_SummedGroup ==
    /\ ShopDone
    /\ Len(shopRun.lines) = 2
    /\ shopRun.lines[1].name = "ui" /\ shopRun.lines[1].amount = Some(2)
    /\ shopRun.lines[2].name = "rode ui" /\ shopRun.lines[2].amount = Some(1)
    /\ Len(shopRun.items) = 1
    /\ shopRun.items[1].amount = Some(3)
    /\ shopRun.items[1].unit = Null
    /\ Len(shopRun.items[1].sources) = 2

\* C9: the category of an item is one of the 9 fixed categories: the first,
\* in the fixed order, with a keyword that occurs in the lower-cased
\* original name, and "Overig" when there is none.
C9_FirstMatchingCategory ==
    /\ Len(CategoryNames) = 9
    /\ ShopDone =>
        \A g \in 1..Len(shopRun.items) :
            LET lower == ToLowerCase(shopRun.items[g].displayName)
                hits == { c \in 1..Len(CategoryNames) :
                            /\ CategoryNames[c] # "Overig"
                            /\ \E k \in 1..Len(ingredientCategories[c]) :
                                   Includes(lower, ingredientCategories[c][k]) }
            IN  /\ shopRun.items[g].category
                     = (IF hits = {} THEN "Overig"
                        ELSE CategoryNames[CHOOSE c \in hits : \A d \in hits : c <= d])
                /\ shopRun.items[g].displayName = "kipfilet"
                     => shopRun.items[g].category = "Vlees & Vis"
                /\ shopRun.items[g].displayName = "ui"
                     => shopRun.items[g].category = "Groente & Fruit"
                /\ shopRun.items[g].displayName = "zout naar smaak"
                     => shopRun.items[g].category = "Kruiden & Specerijen"
                /\ shopRun.items[g].displayName = "xyz-ingredient"
                     => shopRun.items[g].category = "Overig"

\* C9 witness: a name in capitals with a keyword of the first category is
\* categorized by its lower-cased form.
C9_Witness_CaseInsensitiveMatch ==
    /\ ShopDone
    /\ shopRun.items[1].displayName = " Rode\tUI "
    /\ shopRun.items[1].category = "Groente & Fruit"


(***************************************************************************)
(* Properties of getWeatherTags and scoreRecipe, checked under SpecScore.  *)
(***************************************************************************)
ScoreDone == scoreRun.phase = "done"

\* C5 (as stated): seasonScore is in {5,15,30}, weatherScore in {10,15,30},
\* recencyScore in {0,15,30,40}, the total is their sum, lies in [20,100]
\* for a recipe without seasons and weather tags, and is never below 5.
C5_ScoreRangesAsStated ==
    ScoreDone =>
        LET score == Val(scoreRun.score)
        IN  /\ score.seasonScore \in { 5, 15, 30 }
            /\ score.weatherScore \in { 10, 15, 30 }
            /\ score.recencyScore \in { 0, 15, 30, 40 }
            /\ score.totalScore
                 = score.seasonScore + score.weatherScore + score.recencyScore
            /\ (scoreRun.seasons = << >> /\ scoreRun.tags = << >>)
                 => score.totalScore \in 20..100
            /\ score.totalScore >= 5

\* C5 (amended): as stated, except that weatherScore is 10 for a recipe
\* without weather tags and otherwise in {0,15,30}, 0 when none of its tags
\* is among today's. recencyScore is 0 below 3 days, 15 for 3-6, 30 for
\* 7-13 and 40 from 14 days on or when never eaten.
C5_ScoreRanges ==
    ScoreDone =>
        LET score == Val(scoreRun.score)
        IN  /\ score.seasonScore \in { 5, 15, 30 }
            /\ scoreRun.seasons = << >> <=> score.seasonScore = 15
            /\ IF scoreRun.tags = << >>
               THEN score.weatherScore = 10
               ELSE score.weatherScore \in { 0, 15, 30 }
            /\ score.weatherScore = 0
                 <=> /\ scoreRun.tags # << >>
                     /\ Elems(scoreRun.tags) \cap Elems(scoreRun.weatherTags) = {}
            /\ score.recencyScore
                 = (IF scoreRun.days < 3 THEN 0
                    ELSE IF scoreRun.days \in 3..6 THEN 15
                    ELSE IF scoreRun.days \in 7..13 THEN 30
                    ELSE 40)
            /\ score.totalScore
                 = score.seasonScore + score.weatherScore + score.recencyScore
            /\ (scoreRun.seasons = << >> /\ scoreRun.tags = << >>)
                 => score.totalScore \in 20..100
            /\ score.totalScore >= 5

\* C5 witness: a recipe out of season, with weather tags none of which is
\* among today's, eaten today: weatherScore 0 and the lowest total, 5.
C5_Witness_NoMatchingTag ==
    /\ ScoreDone
    /\ scoreRun.tags # << >>
    /\ Val(scoreRun.score).weatherScore = 0
    /\ Val(scoreRun.score).totalScore = 5

\* C6: the tags of a snapshot are koud for temp < 10, warm for temp > 20,
\* regenachtig for a rain, drizzle or thunder condition and zonnig for a
\* clear or clouds condition, and no others; a recipe with weather tags
\* scores min(30, 15 x the number of its tags among them). At temp 5 with
\* "Rain" the tags are koud and regenachtig, a recipe tagged koud scores 15
\* and one tagged koud, regenachtig scores 30.
C6_WeatherTagsAndScore ==
    ScoreDone =>
        LET tags == Elems(scoreRun.weatherTags)
            matches == Cardinality({ i \in 1..Len(scoreRun.tags) : scoreRun.tags[i] \in tags })
        IN  /\ "koud" \in tags <=> scoreRun.temp < 10
            /\ "warm" \in tags <=> scoreRun.temp > 20
            /\ "regenachtig" \in tags
                 <=> scoreRun.condition \in { "Rain", "Drizzle", "Thunderstorm" }
            /\ "zonnig" \in tags <=> scoreRun.condition \in { "Clear", "Clouds" }
            /\ tags \subseteq WeatherTags
            /\ Len(scoreRun.weatherTags) = Cardinality(tags)
            /\ scoreRun.tags # << >>
                 => Val(scoreRun.score).weatherScore = Min(30, 15 * matches)
            /\ (scoreRun.temp = 5 /\ scoreRun.condition = "Rain")
                 => /\ tags = { "koud", "regenachtig" }
                    /\ scoreRun.tags = << "koud" >>
                         => Val(scoreRun.score).weatherScore = 15
                    /\ scoreRun.tags = << "koud", "regenachtig" >>
                         => Val(scoreRun.score).weatherScore = 30

\* C6 witness: temp 5 with "Rain" and a recipe tagged koud, regenachtig.
C6_Witness_ColdRain ==
    /\ ScoreDone
    /\ scoreRun.temp = 5 /\ scoreRun.condition = "Rain"
    /\ scoreRun.tags = << "koud", "regenachtig" >>
    /\ scoreRun.weatherTags = << "koud", "regenachtig" >>
    /\ Val(scoreRun.score).weatherScore = 30


(***************************************************************************)
(* Properties of the suggestion requests, checked under Spec.              *)
(***************************************************************************)

\* C1 (as stated): of two getTodaySuggestion calls on the same day with no
\* other request between them, the first of which returned a suggestion,
\* the second returns the same suggestion id and inserts no row.
C1_GetTodayIdempotent ==
    [][(last.op = "getToday" /\ last.ok /\ last'.op = "getToday")
          => /\ last'.ok
             /\ last'.id = last.id
             /\ suggestions' = suggestions]_vars

\* The requests that call generateSuggestion leave its call in `last`.
Generated == last.op \in { "getToday", "reject", "generate" } /\ last.gen # Null

\* C10 (as stated): generateSuggestion fails with "No recipes in database"
\* exactly when the catalog is empty; with a non-empty catalog it returns a
\* catalog recipe, after a retry without exclusions when every recipe is
\* excluded and one outside excludeIds otherwise.
C10_FailsIffCatalogEmpty ==
    Generated =>
        LET gen == Val(last.gen)
        IN  /\ gen.outcome.kind = "noRecipes" <=> recipes = {}
            /\ recipes # {}
                 => /\ gen.outcome.kind = "ok"
                    /\ gen.outcome.recipeId \in recipes
                    /\ gen.outcome.retried <=> recipes \subseteq gen.exclude
                    /\ ~gen.outcome.retried => gen.outcome.recipeId \notin gen.exclude

\* C10 (amended): when the weather provider fails, generateSuggestion fails
\* with the provider's error whatever the catalog. When the snapshot is
\* obtained it fails with "No recipes in database" exactly when the catalog
\* is empty; with a non-empty catalog it returns a catalog recipe, after a
\* retry without exclusions exactly when every recipe is excluded, and one
\* outside excludeIds otherwise. POST /api/suggestions/generate, which only
\* calls it, changes no table.
C10_GenerateSuggestion ==
    [][(last' # last /\ last'.op \in { "getToday", "reject", "generate" }
          /\ last'.gen # Null)
          => LET gen == Val(last'.gen)
             IN  /\ gen.outcome.kind = "weatherError" <=> ~gen.weatherOk
                 /\ gen.weatherOk
                      => /\ gen.outcome.kind = "noRecipes" <=> recipes = {}
                         /\ recipes # {}
                              => /\ gen.outcome.kind = "ok"
                                 /\ gen.outcome.recipeId \in recipes
                                 /\ gen.outcome.retried <=> recipes \subseteq gen.exclude
                                 /\ ~gen.outcome.retried
                                      => gen.outcome.recipeId \notin gen.exclude
                 /\ gen.exclude = (IF last'.op = "generate" THEN {}
                                   ELSE SuggestedRecipeIds(today))
                 /\ last'.op = "generate"
                      => UNCHANGED <<recipes, recipeSeq, suggestions, mealHistory, histSeq, weekPlan>>]_vars

\* C10 witness: every recipe of a non-empty catalog was suggested today, and
\* a reject got a catalog recipe from the retry without exclusions.
C10_Witness_RetriedWithAllExcluded ==
    /\ last.op = "reject" /\ last.ok
    /\ recipes # {}
    /\ recipes \subseteq Val(last.gen).exclude
    /\ Val(last.gen).outcome.retried
    /\ Val(last.gen).outcome.recipeId \in Val(last.gen).exclude

(***************************************************************************)
(* Properties of accept and reject, checked under SpecHistory.             *)
(***************************************************************************)

\* C2 (as stated): rejectSuggestion on an accepted suggestion removes the
\* meal history entries its acceptSuggestion created and no other entry.
C2_RejectRemovesExactlyAcceptedEntry ==
    [][\A id \in 1..HistorySuggestions :
          (/\ id \in SuggestionIds
           /\ suggestions[id].status = "accepted"
           /\ last'.op = "reject" /\ last'.id = id)
          => mealHistory' = { h \in mealHistory : h.by # id }]_vars

(***************************************************************************)
(* Properties of the week plan handlers, checked under SpecPlan.           *)
(***************************************************************************)
PlanRead == last.op = "weekplan" /\ last.ok

\* C3 (as stated): with at least as many recipes in the catalog as the
\* window has days, no two dates of a week plan read carry the same recipe.
C3_NoRecipeTwiceInWindow ==
    (PlanRead /\ Cardinality(recipes) >= Len(last.days))
        => \A i, j \in 1..Len(last.days) :
               (i # j /\ last.days[i].recipe # Null)
                   => last.days[i].recipe # last.days[j].recipe

\* C3 (amended): in a week plan read, the recipe generated for a date
\* without a record differs from the recipe of every earlier date of the
\* window; with at least as many recipes as the window has days, every such
\* date gets a recipe. (Dates with a record, and today's suggestion, keep
\* their recipe whatever the other dates carry.)
C3_GeneratedDiffersFromEarlierDays ==
    PlanRead =>
        \A j \in 1..Len(last.days) :
            last.days[j].source = "generated"
                => /\ \A i \in 1..(j - 1) :
                          last.days[j].recipe # Null
                              => last.days[i].recipe # last.days[j].recipe
                   /\ Cardinality(recipes) >= Len(last.days)
                          => last.days[j].recipe # Null

\* C3 witness: a read of a window of two dates with two recipes in the
\* catalog: today carries a recipe and the next date's recipe, generated in
\* this read, is the other one.
C3_Witness_GeneratedAfterUsed ==
    /\ PlanRead
    /\ Len(last.days) = 2
    /\ Cardinality(recipes) = 2
    /\ last.days[1].recipe # Null
    /\ last.days[2].source = "generated"
    /\ last.days[2].recipe # Null
    /\ last.days[2].recipe # last.days[1].recipe

\* The recipe ids regenerateDay excludes for a date: those of the week_plan
\* rows of the other dates and, for today, of today's suggestions.
ExcludedFor(date) ==
    { r \in RecipeIds :
        \/ \E d \in PlanDates : /\ d # date
                                /\ weekPlan[d] # Null
                                /\ Val(weekPlan[d]).recipeId = Some(r)
        \/ /\ date = today
           /\ \E i \in SuggestionIds : /\ suggestions[i].suggestedFor = date
                                       /\ suggestions[i].recipeId = r }

\* C4: regenerateDay answers 400 and changes no suggestions or week_plan
\* row exactly when every catalog recipe is excluded for the date.
C4_RegenerateFailsOnEmptyPool ==
    [][\A date \in PlanDates :
          (last' # last /\ last'.op = "regenerate" /\ last'.date = date)
          => /\ last'.status = 400 <=> recipes \subseteq ExcludedFor(date)
             /\ last'.status = 400 => UNCHANGED <<suggestions, weekPlan>>]_vars

\* C4 witness: the catalog holds one recipe, another date's week_plan row
\* carries it, and regenerateDay for a date after today answered 400.
C4_Witness_OnlyRecipeUsedElsewhere ==
    /\ last.op = "regenerate" /\ last.status = 400
    /\ last.date # today
    /\ Cardinality(recipes) = 1
    /\ \E d \in PlanDates : /\ d # last.date
                            /\ weekPlan[d] # Null
                            /\ Val(weekPlan[d]).recipeId # Null
                            /\ Val(Val(weekPlan[d]).recipeId) \in recipes


(***************************************************************************)
(* Properties of reject and of the handlers on today, checked under Spec.  *)
(***************************************************************************)

\* C11: the row a successful rejectSuggestion appends is a pending row for
\* today, and its recipe is none of the recipes that had a suggestions row
\* for today before it was appended, unless every recipe of the catalog had
\* one.
C11_RejectNeverResuggests ==
    [][(last'.op = "reject" /\ last'.ok /\ Len(suggestions') = Len(suggestions) + 1)
          => LET new == suggestions'[Len(suggestions')]
             IN  /\ new.status = "pending"
                 /\ new.suggestedFor = today
                 /\ new.recipeId \in recipes
                 /\ new.recipeId \in SuggestedRecipeIds(today)
                      => recipes \subseteq SuggestedRecipeIds(today)]_vars

\* C11 witness: a reject found a recipe suggested today and another one not
\* yet suggested, and its new row carries the one not yet suggested.
C11_Witness_FreshRecipeAfterReject ==
    /\ last.op = "reject" /\ last.ok
    /\ Val(last.gen).exclude # {}
    /\ ~(recipes \subseteq Val(last.gen).exclude)
    /\ suggestions[last.newId].recipeId \notin Val(last.gen).exclude
    /\ suggestions[last.newId].status = "pending"

(***************************************************************************)
(* Properties of the status of suggestions rows, checked under SpecToday.  *)
(***************************************************************************)

\* The status changes the documentation's state machine lists.
ClaimStatusTransitions ==
    { << "pending", "accepted" >>, << "pending", "rejected" >>,
      << "pending", "cleared" >>, << "accepted", "cleared" >> }

\* C12 (as stated): every status change of a suggestions row is pending to
\* accepted, pending to rejected, pending to cleared or accepted to cleared;
\* in particular no row leaves rejected or cleared.
C12_OnlyDocumentedTransitions ==
    [][\A i \in 1..Len(suggestions) :
          suggestions'[i].status # suggestions[i].status
              => << suggestions[i].status, suggestions'[i].status >>
                     \in ClaimStatusTransitions]_vars

\* C12 (amended): a row's status changes only as the request just served
\* writes it, from whatever status the row had: to accepted by
\* acceptSuggestion of that row, to rejected by rejectSuggestion of that row
\* or by setDayRecipe / regenerateDay for the row's date when it is today,
\* to cleared by clearDay for the row's date when it is today. No status
\* changes to pending; a row is inserted as pending or, by setDayRecipe, as
\* accepted, and no row is removed.
C12_StatusTransitions ==
    [][/\ Len(suggestions') >= Len(suggestions)
       /\ \A i \in 1..Len(suggestions) :
             /\ suggestions'[i].recipeId = suggestions[i].recipeId
             /\ suggestions'[i].suggestedFor = suggestions[i].suggestedFor
             /\ suggestions'[i].status # suggestions[i].status
                  => \/ /\ suggestions'[i].status = "accepted"
                        /\ last'.op = "accept" /\ last'.id = i
                     \/ /\ suggestions'[i].status = "rejected"
                        /\ \/ last'.op = "reject" /\ last'.id = i
                           \/ /\ last'.op \in { "setDay", "regenerate" }
                              /\ last'.ok
                              /\ last'.date = today
                              /\ suggestions[i].suggestedFor = today
                     \/ /\ suggestions'[i].status = "cleared"
                        /\ last'.op = "clearDay"
                        /\ last'.date = today
                        /\ suggestions[i].suggestedFor = today
       /\ \A i \in (Len(suggestions) + 1)..Len(suggestions') :
             \/ suggestions'[i].status = "pending"
                  /\ last'.op \in { "getToday", "reject", "regenerate" }
             \/ suggestions'[i].status = "accepted" /\ last'.op = "setDay"]_vars

\* C12 witness: a suggestion that was accepted has been rejected by
\* rejectSuggestion, a change the state machine does not list.
C12_Witness_AcceptedThenRejected ==
    /\ last.op = "reject"
    /\ last.wasAccepted
    /\ suggestions[last.id].status = "rejected"

\* C13 (as stated): no meal history entry inserted by acceptSuggestion of a
\* suggestion exists while that suggestion has status rejected, whichever
\* request set the status.
C13_NoHistoryOfRejectedSuggestion ==
    \A h \in mealHistory :
        (h.by # 0 /\ h.by \in SuggestionIds) => suggestions[h.by].status # "rejected"

\* C14: acceptSuggestion of an existing suggestion sets that row's status to
\* accepted and inserts one meal history entry for the row's recipe, eaten
\* today, and changes no other suggestions, meal_history, week_plan or
\* recipes row; for an id without a row it fails with "Suggestion not found"
\* and changes no row.
C14_AcceptFrame ==
    [][(last'.op = "accept" /\ last' # last)
          => IF last'.id \in SuggestionIds
             THEN /\ last'.ok
                  /\ Len(suggestions') = Len(suggestions)
                  /\ \A i \in SuggestionIds :
                        suggestions'[i] =
                            IF i = last'.id
                            THEN [suggestions[i] EXCEPT !.status = "accepted"]
                            ELSE suggestions[i]
                  /\ mealHistory \subseteq mealHistory'
                  /\ Cardinality(mealHistory' \ mealHistory) = 1
                  /\ \A h \in mealHistory' \ mealHistory :
                        /\ h.recipeId = suggestions[last'.id].recipeId
                        /\ h.eatenAt = today
                  /\ UNCHANGED <<recipes, weekPlan>>
             ELSE /\ ~last'.ok
                  /\ last'.error = "Suggestion not found"
                  /\ UNCHANGED <<recipes, suggestions, mealHistory, histSeq, weekPlan>>]_vars

\* C14 witness: a suggestion was accepted while another suggestions row, not
\* accepted, and a week_plan row for today exist.
C14_Witness_AcceptedAmongOtherRows ==
    /\ last.op = "accept" /\ last.ok
    /\ suggestions[last.id].status = "accepted"
    /\ \E j \in SuggestionIds : j # last.id /\ suggestions[j].status # "accepted"
    /\ weekPlan[today] # Null
    /\ \E h \in mealHistory : h.id = last.historyId /\ h.by = last.id

\* C15 (as stated): setDayRecipe(today, r) answers 400 for a missing
\* recipeId and 404 for an unknown recipe, changing no row; when it succeeds
\* it sets every suggestions row of today to rejected and appends one
\* accepted row for r; and the next getTodaySuggestion returns that row and
\* inserts nothing.
C15_SetDayThenGetToday ==
    [][/\ (last'.op = "setDay" /\ last'.date = today
            /\ (last' # last \/ suggestions' # suggestions))
          => /\ last'.status \in { 400, 404 }
                  => UNCHANGED <<recipes, suggestions, mealHistory, weekPlan>>
             /\ last'.ok
                  => /\ last'.recipeId \in recipes
                     /\ suggestions' =
                            Append(SetStatusFor(suggestions, today, "rejected"),
                                   [recipeId |-> last'.recipeId, suggestedFor |-> today,
                                    status |-> "accepted", createdAt |-> now])
                     /\ UNCHANGED <<recipes, mealHistory, weekPlan>>
       /\ (last.op = "setDay" /\ last.ok /\ last.date = today /\ last'.op = "getToday")
          => /\ last'.ok
             /\ last'.id = Len(suggestions)
             /\ last'.recipeId = last.recipeId
             /\ suggestions[last'.id].status = "accepted"
             /\ suggestions' = suggestions]_vars

(***************************************************************************)
(* Properties of regenerateDay and of the reads of today's suggestion,     *)
(* checked under SpecPlan.                                                 *)
(***************************************************************************)

\* C16: a successful regenerateDay(date) picks a catalog recipe that no
\* week_plan row of another date holds and, when date is today, that none of
\* today's suggestions rows carries. For today it sets every suggestions row
\* of today to rejected, whatever its status and also when it was inserted
\* as accepted by setDayRecipe, and appends one pending row for the picked
\* recipe, which no row of today is created after; the week_plan table is
\* left alone. For another date it writes the picked recipe to that date's
\* week_plan row and leaves the suggestions table alone.
C16_RegenerateDay ==
    [][\A date \in PlanDates :
          (/\ last'.op = "regenerate" /\ last'.date = date /\ last'.ok
           /\ (last' # last \/ suggestions' # suggestions \/ weekPlan' # weekPlan))
          => /\ last'.recipeId \in recipes
             /\ \A d \in PlanDates :
                   (d # date /\ weekPlan[d] # Null)
                       => Val(weekPlan[d]).recipeId # Some(last'.recipeId)
             /\ IF date = today
                THEN /\ \A i \in SuggestionIds :
                           suggestions[i].suggestedFor = today
                               => /\ suggestions[i].recipeId # last'.recipeId
                                  /\ suggestions'[i].status = "rejected"
                     /\ Len(suggestions') = Len(suggestions) + 1
                     /\ LET new == suggestions'[Len(suggestions')]
                        IN  /\ new.recipeId = last'.recipeId
                            /\ new.suggestedFor = today
                            /\ new.status = "pending"
                            /\ \A i \in SuggestionIds :
                                  suggestions'[i].createdAt <= new.createdAt
                     /\ UNCHANGED weekPlan
                ELSE /\ weekPlan'[date] # Null
                     /\ Val(weekPlan'[date]).recipeId = Some(last'.recipeId)
                     /\ \A d \in PlanDates \ { date } : weekPlan'[d] = weekPlan[d]
                     /\ UNCHANGED suggestions]_vars

\* C16 witness: today's suggestion had been accepted (under SpecPlan only
\* setDayRecipe writes that status, the manual choice) and another
\* date's week_plan row holds a recipe; regenerateDay for today rejected the
\* manual row and appended a pending row for a recipe neither of them has.
C16_Witness_RegeneratedOverManual ==
    /\ last.op = "regenerate" /\ last.ok /\ last.date = today
    /\ Len(suggestions) >= 2
    /\ suggestions[Len(suggestions)].status = "pending"
    /\ suggestions[Len(suggestions)].recipeId = last.recipeId
    /\ "accepted" \in last.was
    /\ \A i \in 1..(Len(suggestions) - 1) :
          suggestions[i].suggestedFor = today => suggestions[i].status = "rejected"
    /\ \E d \in PlanDates :
          /\ d # today
          /\ weekPlan[d] # Null
          /\ Val(weekPlan[d]).recipeId # Null
          /\ Val(Val(weekPlan[d]).recipeId) \in recipes \ { last.recipeId }

(***************************************************************************)
(* Properties of recipe deletes, checked under SpecDelete.                 *)
(***************************************************************************)

\* C17 (as stated): in every reachable state each recipe id held by a
\* suggestions row, a meal_history row or a week_plan row (where it is not
\* NULL) is the id of a recipes row.
C17_ReferencesExist ==
    /\ \A i \in SuggestionIds : suggestions[i].recipeId \in recipes
    /\ \A h \in mealHistory : h.recipeId \in recipes
    /\ \A d \in PlanDates :
          (weekPlan[d] # Null /\ Val(weekPlan[d]).recipeId # Null)
              => Val(Val(weekPlan[d]).recipeId) \in recipes

(***************************************************************************)
(* Properties of the reads of today's suggestion, checked under SpecPlan.  *)
(***************************************************************************)

\* The last request inserted a suggestions row for today: a successful
\* rejectSuggestion, setDayRecipe(today) or regenerateDay(today). The row is
\* the last of the table.
InsertedForToday ==
    /\ last.op \in { "reject", "setDay", "regenerate" }
    /\ last.ok
    /\ last.op \in { "setDay", "regenerate" } => last.date = today
    /\ Len(suggestions) > 0
    /\ suggestions[Len(suggestions)].suggestedFor = today
    /\ suggestions[Len(suggestions)].recipeId = last.recipeId

\* C18 (as stated): the request after one that inserted a row for today
\* uses that row: getTodaySuggestion returns it and inserts nothing, and a
\* week plan read shows its recipe and status for today; also when an older
\* row of today has the same createdAt.
C18_ReadsUseNewestRow ==
    [][InsertedForToday
          => LET new == suggestions[Len(suggestions)]
             IN  /\ last'.op = "getToday"
                      => /\ last'.ok
                         /\ last'.id = Len(suggestions)
                         /\ suggestions' = suggestions
                 /\ (last'.op = "weekplan" /\ last'.ok)
                      => /\ last'.days[1].date = today
                         /\ last'.days[1].recipe = Some(new.recipeId)
                         /\ last'.days[1].status = Some(new.status)]_vars

(***************************************************************************)
(* Properties of clearDay followed by getTodaySuggestion, checked under    *)
(* Spec.                                                                   *)
(***************************************************************************)

\* C19: the getTodaySuggestion that follows clearDay(today) never returns an
\* existing row: it calls generateSuggestion with the recipes of today's
\* rows excluded, and succeeds exactly when the weather snapshot is
\* obtained and the catalog is not empty. When it succeeds it appends one
\* pending row for today and returns it, with a recipe that has no row for
\* today unless every catalog recipe has one; when it fails it inserts
\* nothing.
C19_ClearedDayRegenerates ==
    [][(last.op = "clearDay" /\ last.date = today /\ last'.op = "getToday")
          => /\ last'.gen # Null
             /\ Val(last'.gen).exclude = SuggestedRecipeIds(today)
             /\ last'.ok <=> (Val(last'.gen).weatherOk /\ recipes # {})
             /\ IF last'.ok
                THEN /\ suggestions' =
                            Append(suggestions,
                                   [recipeId |-> last'.recipeId, suggestedFor |-> today,
                                    status |-> "pending", createdAt |-> now])
                     /\ last'.id = Len(suggestions')
                     /\ last'.recipeId \in recipes
                     /\ last'.recipeId \in SuggestedRecipeIds(today)
                          => recipes \subseteq SuggestedRecipeIds(today)
                ELSE suggestions' = suggestions]_vars

\* C19 witness: every earlier row of today is cleared, and getTodaySuggestion
\* has inserted and returned a pending row whose recipe none of them has.
C19_Witness_NewPendingAfterClear ==
    /\ last.op = "getToday" /\ last.ok /\ last.inserted
    /\ last.id = Len(suggestions)
    /\ last.id > 1
    /\ suggestions[last.id].status = "pending"
    /\ \A i \in 1..(last.id - 1) :
          /\ suggestions[i].suggestedFor = today
          /\ suggestions[i].status = "cleared"
          /\ suggestions[i].recipeId # last.recipeId

(***************************************************************************)
(* Properties of today's entry in the week plan, checked under SpecPlan.   *)
(***************************************************************************)

\* The authoritative row of a date as the documentation defines it: the
\* most recently created one, which has the greatest id.
ClaimAuthoritative(date) ==
    CHOOSE i \in SuggestionsFor(date) : \A j \in SuggestionsFor(date) : j <= i

\* C20 (as stated): after a week plan read, when a suggestions row for today
\* exists, today's entry comes from the authoritative row and not from the
\* week_plan table: a null recipe when that row is cleared, and otherwise
\* that row's recipe and status.
C20_TodayGovernedBySuggestion ==
    (PlanRead /\ SuggestionsFor(today) # {})
        => LET row == suggestions[ClaimAuthoritative(today)]
               day == last.days[1]
           IN  /\ day.date = today
               /\ day.source = "suggestion"
               /\ IF row.status = "cleared"
                  THEN day.recipe = Null
                  ELSE /\ day.recipe = Some(row.recipeId)
                       /\ day.status = Some(row.status)

(***************************************************************************)
(* Properties of regenerateDay on a later date, checked under SpecPlan.    *)
(***************************************************************************)

CandidatesOf(j) ==
    recipes \ { Val(last.days[i].recipe) :
                  i \in { k \in 1..(j - 1) : last.days[k].recipe # Null } }

InSeason(r) == last.season \in Elems(RecipeSeasons(r))

\* The score of a candidate for day j without its jitter.
PointsOf(r, j) ==
    (IF InSeason(r) THEN 30 ELSE 0)
    + 15 * MatchingTags(RecipeWeatherTags(r), last.days[j].weatherTags)

GeneratedPicks ==
    { j \in 1..Len(last.days) :
        last.days[j].source = "generated" /\ last.days[j].recipe # Null }

\* C22 (as stated): the recipe a week plan read generates for a date is in
\* season whenever a not-yet-used candidate is in season.
C22_GeneratedPickInSeason ==
    PlanRead =>
        \A j \in GeneratedPicks :
            (\E q \in CandidatesOf(j) : InSeason(q))
                => InSeason(Val(last.days[j].recipe))

\* C22 (amended): the recipe generated for a date is a not-yet-used
\* candidate whose season points (30) plus weather points (15 per recipe
\* tag among the forecast tags of the date) are less than 10 below those of
\* every other candidate. When a candidate is in season the pick is
\* therefore in season or matches two forecast tags, and today's pick,
\* scored without forecast tags, is in season.
C22_GeneratedPickScore ==
    PlanRead =>
        \A j \in GeneratedPicks :
            LET p == Val(last.days[j].recipe)
            IN  /\ p \in CandidatesOf(j)
                /\ \A q \in CandidatesOf(j) : PointsOf(q, j) - PointsOf(p, j) < 10
                /\ (\E q \in CandidatesOf(j) : InSeason(q))
                      => \/ InSeason(p)
                         \/ /\ last.days[j].date # today
                            /\ MatchingTags(RecipeWeatherTags(p),
                                            last.days[j].weatherTags) >= 2

\* C22 witness: a read generated for a later date a recipe that is out of
\* season and matches two forecast tags, while a candidate in season
\* matched none.
C22_Witness_WeatherBeatsSeason ==
    /\ PlanRead
    /\ \E j \in GeneratedPicks :
          /\ ~InSeason(Val(last.days[j].recipe))
          /\ MatchingTags(RecipeWeatherTags(Val(last.days[j].recipe)),
                          last.days[j].weatherTags) = 2
          /\ \E q \in CandidatesOf(j) : InSeason(q) /\ PointsOf(q, j) = 30

(***************************************************************************)
(* Properties of the shopping list, checked under SpecShopping.            *)
(***************************************************************************)

\* C23 (as stated): a shopping list request that directly follows a week
\* plan read attributes to every date of the read the recipe the read
\* emitted for it, and no recipe where the read emitted none.
C23_ShoppingFollowsWeekPlan ==
    [][ (last.op = "weekplan" /\ last.ok /\ last'.op = "shopping")
        => \A k \in 1..Len(last.days) :
              LET entries == { e \in 1..Len(last'.recipes) :
                                 last'.recipes[e].date = last.days[k].date }
              IN  IF last.days[k].recipe = Null THEN entries = {}
                  ELSE /\ entries # {}
                       /\ \A e \in entries :
                             last'.recipes[e].id = Val(last.days[k].recipe) ]_vars

(***************************************************************************)
(* Properties of getCurrentWeather, checked under SpecWeather.             *)
(***************************************************************************)

\* A call of getCurrentWeather starts in this step.
WeatherStarts == weatherRun'.calls # weatherRun.calls

\* The call that starts in this step returns the cached snapshot and does
\* not call the provider.
ServedFromCache ==
    /\ weatherRun'.out = [id |-> weatherRun'.calls, kind |-> "cached",
                          data |-> Val(weatherCache).data]
    /\ weatherRun'.pending = weatherRun.pending

\* The call that starts in this step calls the provider.
CallsProvider ==
    /\ weatherRun'.out = weatherRun.out
    /\ \E call \in weatherRun'.pending : weatherRun'.pending = weatherRun.pending \cup { call }
    /\ weatherRun'.pending # weatherRun.pending

\* A call returns with the provider's failure in this step.
WeatherFails ==
    /\ weatherRun'.pending # weatherRun.pending
    /\ weatherRun'.calls = weatherRun.calls
    /\ weatherRun'.out.kind = "error"

\* C24 (as stated): a call is served from the cache without a provider call
\* exactly when an entry exists that was stored on the current local
\* calendar day less than 30 minutes ago, and calls the provider otherwise;
\* a call that fails leaves the cache entry unchanged.
C24_ServedIffStoredToday ==
    [][ /\ WeatherStarts
           => LET fresh == /\ weatherCache # Null
                           /\ Val(weatherCache).timestamp = weatherRun.day
                           /\ ~weatherRun.expired
              IN  /\ IF fresh THEN ServedFromCache ELSE CallsProvider
                  /\ weatherCache' = weatherCache
        /\ WeatherFails => weatherCache' = weatherCache ]_vars

\* C24 (amended): a call is served from the cache without a provider call
\* exactly when an entry exists whose date, the local calendar day on which
\* the call that stored it started, is the current day and which was stored
\* less than 30 minutes ago, and calls the provider otherwise; a call that
\* fails leaves the cache entry unchanged.
C24_ServedIffEntryOfToday ==
    [][ /\ WeatherStarts
           => LET fresh == /\ weatherCache # Null
                           /\ Val(weatherCache).date = weatherRun.day
                           /\ ~weatherRun.expired
              IN  /\ IF fresh THEN ServedFromCache ELSE CallsProvider
                  /\ weatherCache' = weatherCache
        /\ WeatherFails => weatherCache' = weatherCache ]_vars

\* C24 witness: a call found an entry less than 30 minutes old that the
\* day before had stored, called the provider and failed, and the entry is
\* still the cache.
C24_Witness_FailedAfterMidnight ==
    /\ weatherRun.out.kind = "error"
    /\ weatherRun.out.id = weatherRun.calls
    /\ weatherRun.pending = {}
    /\ weatherCache # Null
    /\ Val(weatherCache).date < weatherRun.day
    /\ Val(weatherCache).timestamp < weatherRun.day
    /\ ~weatherRun.expired

(***************************************************************************)
(* Properties of overlapping week plan requests, checked under SpecRace.   *)
(***************************************************************************)

\* C25 (as stated): week_plan holds at most one row per date, and a request
\* that found no row for the date has answered without an error, however
\* the requests on the date overlap.
C25_OneRowPerDateAndNoRaceError ==
    /\ \A i, j \in 1..Len(raceRun.rows) :
          i # j => raceRun.rows[i].date # raceRun.rows[j].date
    /\ \A p \in RaceProcs :
          (raceRun.procs[p].status # 0 /\ ~raceRun.procs[p].found)
              => raceRun.procs[p].status = 200


\* ---- one live suggestion per date ----

\* The rows of a date that are still pending or accepted.
LiveSuggestions(date) ==
    { i \in SuggestionsFor(date) : suggestions[i].status \in { "pending", "accepted" } }

\* C26: for every date, at most one suggestions row has status pending or
\* accepted, after any sequence of getTodaySuggestion, acceptSuggestion,
\* rejectSuggestion (with any id), setDayRecipe, clearDay and regenerateDay.
C26_OneLiveSuggestionPerDate ==
    \A date \in PlanDates : Cardinality(LiveSuggestions(date)) <= 1


\* ---- the accepted suggestion of today stays ----

\* The suggestion getTodaySuggestion returns for today, when the newest row
\* of today is one accepted row.
AcceptedToday ==
    { a \in SuggestionIds : /\ LatestSuggestionResults(today) = { Some(a) }
                            /\ suggestions[a].status = "accepted" }

\* C27: once today's newest suggestion is accepted, getTodaySuggestion keeps
\* returning it until that very suggestion is rejected or clearDay,
\* setDayRecipe or regenerateDay is applied to today: a getTodaySuggestion,
\* and an acceptSuggestion or rejectSuggestion with the id of another
\* suggestion, leave it accepted and among the newest rows of today.
C27_AcceptedStaysUntilReplaced ==
    [][\A a \in AcceptedToday :
         (/\ last'.op \in { "getToday", "accept", "reject" }
          /\ last'.op \in { "accept", "reject" } => last'.id # a)
         => /\ Some(a) \in LatestSuggestionResults(today)'
            /\ suggestions'[a].status = "accepted"]_vars


\* ---- week plan reads one after another ----

\* The last two requests were week plan reads that succeeded, over the same
\* forecast dates and the same result of the todaySuggestion query.
ReadTwice ==
    /\ last.op = "weekplan" /\ last.ok
    /\ readLog # Null
    /\ Len(Val(readLog).days) = Len(last.days)
    /\ \A i \in DOMAIN last.days : Val(readLog).days[i].date = last.days[i].date
    /\ Val(readLog).top = last.top

\* C28: two consecutive week plan requests on the same day, with no other
\* request in between and the same forecast dates, emit the same recipe (or
\* the same null) for every date.
C28_ReadsAreStable ==
    ReadTwice => \A i \in DOMAIN last.days :
                     last.days[i].recipe = Val(readLog).days[i].recipe

\* The first read generated a pick for a date and the second read found it
\* stored.
C28_Witness_GeneratedThenStored ==
    /\ ReadTwice
    /\ \E i \in DOMAIN last.days :
           /\ Val(readLog).days[i].source = "generated"
           /\ Val(readLog).days[i].recipe # Null
           /\ last.days[i].source = "stored"
           /\ Cardinality(recipes \ { Val(last.days[j].recipe) :
                                        j \in { k \in 1..(i - 1) : last.days[k].recipe # Null } }) > 1


\* ---- getTodaySuggestion calls that overlap ----

\* Both calls have returned a suggestion, and the first of them found no
\* pending or accepted row of today.
BothAnswered ==
    /\ \A p \in TodayCalls : todayRun.calls[p].pc = "done" /\ todayRun.calls[p].id # 0
    /\ todayRun.base # Null /\ ~Val(todayRun.base).live

\* C29: two concurrent getTodaySuggestion requests on a day without a
\* pending or accepted suggestions row leave exactly one new pending row
\* for today and return the same suggestion id, under every interleaving
\* of their reads and inserts.
C29_OverlappingCallsShareOneRow ==
    BothAnswered
    => /\ Len(suggestions) = Val(todayRun.base).rows + 1
       /\ suggestions[Len(suggestions)].status = "pending"
       /\ suggestions[Len(suggestions)].suggestedFor = today
       /\ \A p \in TodayCalls : todayRun.calls[p].id = Len(suggestions)


\* ---- regenerateDay and the rows of past dates ----

\* The recipes assigned to another date of the current window: those of the
\* week_plan rows of the window's other dates and of today's suggestions.
AssignedInWindow(date) ==
    { r \in RecipeIds :
        \/ \E d \in PlanDates : /\ d # date
                                /\ d >= today /\ d < today + WeekLength
                                /\ weekPlan[d] # Null
                                /\ Val(weekPlan[d]).recipeId = Some(r)
        \/ r \in SuggestedRecipeIds(today) }

\* C30: regenerateDay(date) does not answer 400 (no recipes available) when
\* the catalog holds a recipe that is not assigned to another date of the
\* current 7-day window and, for today, was not suggested today; week_plan
\* rows of dates before today do not shrink the candidate pool.
C30_PastRowsDoNotShrinkPool ==
    [][\A date \in PlanDates :
          (/\ last' # last /\ last'.op = "regenerate" /\ last'.date = date
           /\ recipes \ AssignedInWindow(date) # {})
          => last'.status # 400]_vars

=============================================================================
